---- MODULE Spec2Model ----
(***************************************************************************)
(* Verification model of the axon traffic runtime.                         *)
(*                                                                         *)
(* The first three of the state machines sharing this module:               *)
(*   SpecProbe  - one protocol client (clients.py) recording classified    *)
(*                outcomes into the metrics cache;                         *)
(*   SpecWorker - one client worker process (clients/worker.py and the     *)
(*                rule collection of traffic_objects.py) at thread         *)
(*                granularity: RPC handler thread, dispatch thread, pool;  *)
(*   SpecApp    - TrafficApp + TrafficController + worker processes at     *)
(*                RPC granularity (apps/traffic.py, traffic/controller.py).*)
(* Each specification leaves the variables of the others untouched.        *)
(***************************************************************************)
EXTENDS Integers, Sequences, FiniteSets, TLC

VARIABLES
    \* ---- SpecProbe: a TCPClient and its MetricsCache
    client,         \* the client object: connected, action, request_count
    ping_i,         \* requests of ping()'s loop already done
    ping_pc,        \* "run" while ping() is looping, "done" after it returned
    counters,       \* MetricsCache._counters: metric key -> Counter._count
    last_record,    \* the latest record() call: raw outcome, flag, metric
    \* ---- SpecWorker: one TrafficGenWorker process
    rules,          \* TrafficRuleCollection._rules (deque), head first
    rules_map,      \* TrafficRuleCollection._rules_map (its keys)
    mutex,          \* holder of TrafficRuleCollection._mutex
    stop_event,     \* TrafficGenWorker._stop_event
    run_event,      \* TrafficGenWorker._run_event
    pool,           \* -1 (None), or the number of probes in flight in _pool
    gen,            \* the dispatch thread and its generator
    rpc,            \* the RPC handler thread: the call it is serving
    hist,           \* history of the worker (what was called, what was probed)
    \* ---- SpecApp: TrafficApp, TrafficController and the worker processes
    cpu_count,          \* multiprocessing.cpu_count()
    clients_table,      \* rules store, clients table: enabled flag of row k
    servers_table,      \* rules store, servers table: enabled flag of row k
    workers_registry,   \* controller._workers_registry, insertion order
    rules_registry,     \* controller._rules_registry: rule key -> worker uid
    workers,            \* the worker processes: uid -> state of the process
    last_call,          \* the latest call into the controller and its outcome
    \* ---- SpecRace: two RPC clients of one client worker
    race,               \* the rule list R and the calls not yet accepted
    \* ---- SpecMetrics: a MetricsCache, probe threads and an ExchangeReporter
    mcache,             \* MetricsCache._counters: metric key -> Counter._count
    reporter,           \* the reporting thread inside report()
    mhist,              \* per key: increments made, values sent to the exchange
    \* ---- SpecExchange: an Exchange, its manager thread and a subscriber
    now,                \* int(time.time())
    xqueue,             \* Exchange._queue: messages sent and not yet received
    subs,               \* Exchange._subscribers: subscriber -> details
    handled,            \* per subscriber, the batches its handle() was given
    nsent,              \* number of Exchange.send calls made
    \* ---- SpecRecorder: SQLRecorder.handle on one batch
    batch,              \* the messages given to handle(), each a dict key -> value
    rows,               \* the records given to add_records_batch, by str(record)
    \* ---- SpecEquality: __eq__ and __hash__ of the rule objects
    pair,               \* two rule objects of one class
    cmp,                \* a == b, hash(a), hash(b) once compared
    \* ---- SpecConvert: TrafficRecord.to_metric / from_metric / is_success
    conv_args,          \* the arguments of to_metric
    conv_metric,        \* the key to_metric returned
    conv_ret,           \* what from_metric and is_success made of the key
    \* ---- SpecStore: TrafficApp.register_traffic on the rules store
    traffic_configs,    \* the declaration register_traffic is called with
    servers_rows,       \* the servers table, as get_servers() returns it
    clients_rows,       \* the clients table, as get_clients() returns it
    reg_log,            \* calls of register_traffic so far, rows the last one inserted
    \* ---- SpecHost: one TrafficServerWorker
    hosted_servers,     \* TrafficServerWorker._servers
    running_servers,    \* TrafficServerWorker._running_servers, a dict
    add_log,            \* the last add_servers call: arguments, state before, listeners created
    \* ---- SpecHeartbeat: the HeartBeatSender thread of a client worker
    hb,                 \* position of HeartBeatSender.run, the rule count it read
    \* ---- SpecLink: an RPCServer process and the RPCClient calls made to it
    rpc_server,         \* position of RPCServer.run and the connection it serves
    rpc_conns,          \* the connections made to the listener, in order
    rpc_calls,          \* the requests sent: connection, method, reply, outcome
    \* ---- SpecExecutor: a BoundedThreadPoolExecutor and the threads submitting to it
    semaphore,          \* value of BoundedThreadPoolExecutor.semaphore
    futures,            \* the futures super().submit created: state, callback added
    submitters,         \* per submitting thread, its position inside submit()
    \* ---- SpecPing: ping() and _send_receive() of the three protocol clients
    pinger,             \* the client inside ping(): protocol, request_count, loop position, sock
    requests_log,       \* one entry per record() call of the ping: attempts made, raw outcome
    \* ---- SpecCounters: probe threads in MetricsCache.counter(key) and Counter.inc()
    cache_map,          \* MetricsCache._counters: key -> the Counter object stored (0: no key)
    counter_objs,       \* the Counter objects ever created, each by its _count
    probe_threads,      \* per probe thread: position inside record(), key, Counter held, records made
    \* ---- SpecDispatch: ExchangeManager.run beside attach, detach and send
    wire,               \* the clock, Exchange._queue and the number of sends made
    entries,            \* Exchange._subscribers as its entry array: live and deleted entries
    manager,            \* position of the manager thread inside run() / _recieve / _send
    delivered,          \* per subscriber, the batches given to its handle, in order
    received_attached     \* per subscriber, the messages received while it was attached

probeVars  == <<client, ping_i, ping_pc, counters, last_record>>
workerVars == <<rules, rules_map, mutex, stop_event, run_event,
                pool, gen, rpc, hist>>
appVars    == <<cpu_count, clients_table, servers_table, workers_registry,
                rules_registry, workers, last_call>>
raceVars   == <<race>>
metricsVars == <<mcache, reporter, mhist>>
exchangeVars == <<now, xqueue, subs, handled, nsent>>
recorderVars == <<batch, rows>>
equalityVars == <<pair, cmp>>
convertVars == <<conv_args, conv_metric, conv_ret>>
storeVars == <<traffic_configs, servers_rows, clients_rows, reg_log>>
hostVars == <<hosted_servers, running_servers, add_log>>
heartbeatVars == <<hb>>
linkVars == <<rpc_server, rpc_conns, rpc_calls>>
executorVars == <<semaphore, futures, submitters>>
pingVars == <<pinger, requests_log>>
countersVars == <<cache_map, counter_objs, probe_threads>>
dispatchVars == <<wire, entries, manager, delivered, received_attached>>
vars       == <<probeVars, workerVars, appVars, raceVars, metricsVars, exchangeVars, recorderVars, equalityVars, convertVars, storeVars, hostVars, heartbeatVars, linkVars, executorVars, pingVars, countersVars, dispatchVars>>

\* what each machine leaves alone
exceptProbe  == <<workerVars, appVars, raceVars, metricsVars, exchangeVars, recorderVars, equalityVars, convertVars, storeVars, hostVars, heartbeatVars, linkVars, executorVars, pingVars, countersVars, dispatchVars>>
exceptWorker == <<probeVars, appVars, raceVars, metricsVars, exchangeVars, recorderVars, equalityVars, convertVars, storeVars, hostVars, heartbeatVars, linkVars, executorVars, pingVars, countersVars, dispatchVars>>
exceptApp    == <<probeVars, workerVars, raceVars, metricsVars, exchangeVars, recorderVars, equalityVars, convertVars, storeVars, hostVars, heartbeatVars, linkVars, executorVars, pingVars, countersVars, dispatchVars>>
exceptRace   == <<probeVars, appVars, metricsVars, exchangeVars, recorderVars, equalityVars, convertVars, storeVars, hostVars, heartbeatVars, linkVars, executorVars, pingVars, countersVars, dispatchVars>>
exceptMetrics == <<probeVars, workerVars, appVars, raceVars, exchangeVars, recorderVars, equalityVars, convertVars, storeVars, hostVars, heartbeatVars, linkVars, executorVars, pingVars, countersVars, dispatchVars>>
exceptExchange == <<probeVars, workerVars, appVars, raceVars, metricsVars, recorderVars, equalityVars, convertVars, storeVars, hostVars, heartbeatVars, linkVars, executorVars, pingVars, countersVars, dispatchVars>>
exceptRecorder == <<probeVars, workerVars, appVars, raceVars, metricsVars, exchangeVars, equalityVars, convertVars, storeVars, hostVars, heartbeatVars, linkVars, executorVars, pingVars, countersVars, dispatchVars>>
exceptEquality == <<probeVars, workerVars, appVars, raceVars, metricsVars, exchangeVars, recorderVars, convertVars, storeVars, hostVars, heartbeatVars, linkVars, executorVars, pingVars, countersVars, dispatchVars>>
exceptConvert == <<probeVars, workerVars, appVars, raceVars, metricsVars, exchangeVars, recorderVars, equalityVars, storeVars, hostVars, heartbeatVars, linkVars, executorVars, pingVars, countersVars, dispatchVars>>
exceptStore == <<probeVars, workerVars, appVars, raceVars, metricsVars, exchangeVars, recorderVars, equalityVars, convertVars, hostVars, heartbeatVars, linkVars, executorVars, pingVars, countersVars, dispatchVars>>
exceptHost == <<probeVars, workerVars, appVars, raceVars, metricsVars, exchangeVars, recorderVars, equalityVars, convertVars, storeVars, heartbeatVars, linkVars, executorVars, pingVars, countersVars, dispatchVars>>
exceptHeartbeat == <<probeVars, workerVars, appVars, raceVars, metricsVars, exchangeVars, recorderVars, equalityVars, convertVars, storeVars, hostVars, linkVars, executorVars, pingVars, countersVars, dispatchVars>>
exceptLink == <<probeVars, workerVars, appVars, raceVars, metricsVars, exchangeVars, recorderVars, equalityVars, convertVars, storeVars, hostVars, heartbeatVars, executorVars, pingVars, countersVars, dispatchVars>>
exceptExecutor == <<probeVars, workerVars, appVars, raceVars, metricsVars, exchangeVars, recorderVars, equalityVars, convertVars, storeVars, hostVars, heartbeatVars, linkVars, pingVars, countersVars, dispatchVars>>
exceptPing == <<probeVars, workerVars, appVars, raceVars, metricsVars, exchangeVars, recorderVars, equalityVars, convertVars, storeVars, hostVars, heartbeatVars, linkVars, executorVars, countersVars, dispatchVars>>
exceptCounters == <<probeVars, workerVars, appVars, raceVars, metricsVars, exchangeVars, recorderVars, equalityVars, convertVars, storeVars, hostVars, heartbeatVars, linkVars, executorVars, pingVars, dispatchVars>>
exceptDispatch == <<probeVars, workerVars, appVars, raceVars, metricsVars, exchangeVars, recorderVars, equalityVars, convertVars, storeVars, hostVars, heartbeatVars, linkVars, executorVars, pingVars, countersVars>>

\* ------------------------------------------------------------------ bounds
MaxRequestCount == 3    \* request_count of the probing client is in 1..MaxRequestCount

\* ======================================================================
\* SpecProbe: clients.py, TCPClient.record / is_traffic_successful / ping
\* ======================================================================

\* TCPClient.is_traffic_successful with the branches swapped: the rule's
\* expectation is applied to an unconnected pair too.
is_traffic_successful_ignoring_connected(connected, action, success) ==
    action = success

\* TCPClient.is_traffic_successful(success)
is_traffic_successful(connected, action, success) ==
    IF ~connected
        THEN connected = success
        ELSE action = success

\* str(bool) as "{}".format renders it
PyStrBool(b) == IF b THEN "True" ELSE "False"

\* TrafficRecord.to_metric: the key is "<src>:<dst>:<port>:<proto>:<connected>"
\* followed by ":success" or ":failure"; the fixed prefix of the one client
\* modelled here is kept as one field.
to_metric(endpoint, connected, success) ==
    <<endpoint, PyStrBool(connected), IF success THEN "success" ELSE "failure">>

\* MetricsCache.counter(key) followed by Counter.inc(): the counter is created
\* at 0 on first access.
CounterInc(cs, key) ==
    IF key \in DOMAIN cs
        THEN [cs EXCEPT ![key] = @ + 1]
        ELSE [k \in DOMAIN cs \cup {key} |-> IF k = key THEN 1 ELSE cs[k]]

CounterCount(cs, key) == IF key \in DOMAIN cs THEN cs[key] ELSE 0

NoRecord == [raw |-> FALSE, flag |-> FALSE, metric |-> <<>>, made |-> FALSE]

InitProbe ==
    /\ client \in [connected : BOOLEAN, action : BOOLEAN,
                   request_count : 1..MaxRequestCount]
    /\ ping_i = 0
    /\ ping_pc = "run"
    /\ counters = <<>>
    /\ last_record = NoRecord

ProbeIdle ==
    /\ client = [connected |-> TRUE, action |-> TRUE, request_count |-> 1]
    /\ ping_i = 0
    /\ ping_pc = "done"
    /\ counters = <<>>
    /\ last_record = NoRecord

\* TCPClient.record(success): classify, build the key, increment its counter
record(success) ==
    LET flag   == is_traffic_successful(client.connected, client.action, success)
        metric == to_metric("src:dst:port:TCP", client.connected, flag)
    IN  /\ counters' = CounterInc(counters, metric)
        /\ last_record' = [raw |-> success, flag |-> flag,
                           metric |-> metric, made |-> TRUE]

\* One iteration of ping()'s loop: the request either completes
\* (self.record()) or raises (self.record(success=False)).
PingRequest ==
    /\ ping_pc = "run"
    /\ ping_i < client.request_count
    /\ \E raw \in BOOLEAN : record(raw)
    /\ ping_i' = ping_i + 1
    /\ UNCHANGED <<client, ping_pc>>

\* ping() returns when the loop is exhausted
PingReturn ==
    /\ ping_pc = "run"
    /\ ping_i = client.request_count
    /\ ping_pc' = "done"
    /\ UNCHANGED <<client, ping_i, counters, last_record>>

NextProbe ==
    \/ PingRequest /\ UNCHANGED exceptProbe
    \/ PingReturn /\ UNCHANGED exceptProbe

\* ======================================================================
\* SpecWorker: traffic_objects.py TrafficRuleCollection and
\*             clients/worker.py TrafficGenWorker
\* ======================================================================
NumRules == 2           \* client rules a worker is handed are among NumRules identities
POOL_MAX_WORKERS == 10  \* BoundedThreadPoolExecutor(max_workers=10)

\* The protocol of the k-th rule identity
ProtocolOf(k) ==
    CASE k % 4 = 1 -> "TCP"
      [] k % 4 = 2 -> "HTTPS"
      [] k % 4 = 3 -> "UDP"
      [] OTHER     -> "HTTP"

\* A TrafficRule as the worker sees it: its identity tuple (one value) and
\* the protocol that is part of it.
WorkerRule(k) == [ident |-> k, protocol |-> ProtocolOf(k)]
WorkerRules == {WorkerRule(k) : k \in 1..NumRules}

\* The rule lists a controller sends: non-empty slices of the rows the
\* rules store returns, which come in table order
RuleLists ==
    {s \in UNION {[1..n -> WorkerRules] : n \in 1..NumRules} :
        \A i, j \in DOMAIN s : i < j => s[i].ident < s[j].ident}

\* The value __add_rule stores in _rules_map: the integer 1
MapOne == [int |-> 1]
\* "item" of the generator before its first assignment
Unbound == [int |-> 0]

\* TrafficRule.__eq__(self, other)
RuleEq(self, other) ==
    IF "ident" \in DOMAIN other THEN self.ident = other.ident ELSE FALSE

\* TrafficRuleCollection.__add_rule on the pair (deque, map)
AddRule(col, rule) ==
    IF rule \notin DOMAIN col.map
        THEN [rules |-> Append(col.rules, rule),
              map   |-> [r \in DOMAIN col.map \cup {rule} |->
                            IF r = rule THEN MapOne ELSE col.map[r]]]
        ELSE col

\* add_rules that stops after the first rule of the list
RECURSIVE AddRulesFirstOnly(_, _)
AddRulesFirstOnly(col, rs) ==
    IF rs = <<>> THEN col ELSE AddRule(col, Head(rs))

\* TrafficRuleCollection.add_rules: __add_rule for each rule, under the mutex
RECURSIVE AddRules(_, _)
AddRules(col, rs) ==
    IF rs = <<>> THEN col ELSE AddRules(AddRule(col, Head(rs)), Tail(rs))

\* deque.remove(value): drops the first element equal to value
FirstEqual(dq, value) ==
    IF \E i \in DOMAIN dq : RuleEq(dq[i], value)
        THEN CHOOSE i \in DOMAIN dq :
                /\ RuleEq(dq[i], value)
                /\ \A j \in 1..(i - 1) : ~RuleEq(dq[j], value)
        ELSE 0

DequeRemoveAt(dq, i) == SubSeq(dq, 1, i - 1) \o SubSeq(dq, i + 1, Len(dq))

\* __delete_rule with the KeyError swallowed: an absent rule is skipped
DeleteRuleSwallowing(col, rule) ==
    [rules |-> col.rules, map |-> col.map, exc |-> "none"]

\* TrafficRuleCollection.__delete_rule: looks the rule up in _rules_map
\* (KeyError when absent), rebinds "rule" to the stored value and asks the
\* deque to remove that value (ValueError when no element equals it).
DeleteRule(col, rule) ==
    IF rule \notin DOMAIN col.map
        THEN [rules |-> col.rules, map |-> col.map, exc |-> "KeyError"]
        ELSE LET value == col.map[rule]
                 at    == FirstEqual(col.rules, value)
             IN  IF at = 0
                    THEN [rules |-> col.rules, map |-> col.map,
                          exc |-> "ValueError"]
                    ELSE [rules |-> DequeRemoveAt(col.rules, at),
                          map |-> col.map, exc |-> "none"]

\* deque.rotate(-1) skipped: the head stays where it is
RotateNot(dq) == dq

\* deque.rotate(-1): the head moves to the tail
Rotate(dq) == IF dq = <<>> THEN dq ELSE Append(Tail(dq), Head(dq))

Col == [rules |-> rules, map |-> rules_map]

IdleRpc == [call |-> "idle", args |-> <<>>, pc |-> "idle", result |-> "none"]
NoGen == [pc |-> "none", item |-> Unbound]
NoDelete == [active |-> FALSE, rule |-> Unbound, was_present |-> FALSE,
             count_before |-> 0, exc |-> "none"]
NoHist == [rr_base |-> <<>>, rr_idx |-> 0, rr_wrapped |-> FALSE,
           task_started |-> FALSE, task_probed |-> FALSE,
           task_deleted |-> FALSE, last_delete |-> NoDelete,
           after_stop |-> 0, raised |-> "no"]

\* TrafficGenWorker.__init__
InitWorker ==
    /\ rules = <<>>
    /\ rules_map = <<>>
    /\ mutex = "free"
    /\ stop_event = FALSE
    /\ run_event = FALSE
    /\ pool = -1
    /\ gen = NoGen
    /\ rpc = IdleRpc
    /\ hist = NoHist

WorkerIdle == InitWorker

\* the dispatch thread got a further rule after an exception it caught
WentOn(raised) == IF raised = "raised" THEN "went_on" ELSE raised

\* The collection changed: the round-robin history starts afresh
Mutated(h) == [h EXCEPT !.rr_base = <<>>, !.rr_idx = 0, !.rr_wrapped = FALSE]

\* ---- the RPC handler thread (RPCServer._handle_request serves one call
\* ---- at a time)

\* a controller sends add_clients(rs)
RpcCallAdd ==
    /\ rpc.call = "idle"
    /\ \E rs \in RuleLists :
        rpc' = [call |-> "add_clients", args |-> rs, pc |-> "add_rules",
                result |-> "none"]
    /\ UNCHANGED <<rules, rules_map, mutex, stop_event, run_event, pool, gen,
                   hist>>

\* add_clients: self._rule_collections.add_rules(rules)
RpcAddRules ==
    /\ rpc.call = "add_clients" /\ rpc.pc = "add_rules"
    /\ mutex = "free"
    /\ LET new == AddRules(Col, rpc.args)
       IN  /\ rules' = new.rules
           /\ rules_map' = new.map
           /\ hist' = [(IF new.rules # rules THEN Mutated(hist) ELSE hist)
                          EXCEPT !.last_delete = NoDelete]
    /\ rpc' = [rpc EXCEPT !.pc = "start"]
    /\ UNCHANGED <<mutex, stop_event, run_event, pool, gen>>

\* add_clients: with self._stop_lock: if not self._run_event.is_set():
\*     self._start_traffic(); self._run_event.set()
RpcAddStart ==
    /\ rpc.call = "add_clients" /\ rpc.pc = "start"
    /\ IF ~run_event
          THEN /\ pool' = 0
               /\ gen' = [pc |-> "while", item |-> Unbound]
               /\ run_event' = TRUE
               /\ hist' = [Mutated(hist) EXCEPT
                             !.task_started = TRUE,
                             !.task_probed = FALSE,
                             !.task_deleted = FALSE,
                             !.after_stop = 0,
                             !.raised = "no"]
          ELSE UNCHANGED <<pool, gen, run_event, hist>>
    /\ rpc' = [IdleRpc EXCEPT !.result = "ok"]
    /\ UNCHANGED <<rules, rules_map, mutex, stop_event>>

\* a controller sends delete_clients(rs)
RpcCallDelete ==
    /\ rpc.call = "idle"
    /\ \E rs \in RuleLists :
        rpc' = [call |-> "delete_clients", args |-> rs, pc |-> "delete",
                result |-> "none"]
    /\ hist' = [hist EXCEPT !.task_deleted = TRUE]
    /\ UNCHANGED <<rules, rules_map, mutex, stop_event, run_event, pool, gen>>

\* delete_clients: for rule in rules: self._rule_collections.delete_rule(rule)
\* One iteration; an exception of delete_rule ends the call and is sent back.
RpcDeleteRule ==
    /\ rpc.call = "delete_clients" /\ rpc.pc = "delete"
    /\ IF rpc.args = <<>>
          THEN /\ rpc' = [IdleRpc EXCEPT !.result = "ok"]
               /\ UNCHANGED <<rules, rules_map, hist>>
          ELSE /\ mutex = "free"
               /\ LET rule == Head(rpc.args)
                      out  == DeleteRule(Col, rule)
                  IN  /\ rules' = out.rules
                      /\ rules_map' = out.map
                      /\ hist' = [(IF out.rules # rules THEN Mutated(hist) ELSE hist)
                                    EXCEPT !.last_delete =
                                      [active |-> TRUE, rule |-> rule,
                                       was_present |-> rule \in DOMAIN rules_map,
                                       count_before |-> Cardinality(DOMAIN rules_map),
                                       exc |-> out.exc]]
                      /\ rpc' = IF out.exc = "none"
                                  THEN [rpc EXCEPT !.args = Tail(rpc.args)]
                                  ELSE [IdleRpc EXCEPT !.result = out.exc]
    /\ UNCHANGED <<mutex, stop_event, run_event, pool, gen>>

\* a controller sends delete_all_clients()
RpcCallDeleteAll ==
    /\ rpc.call = "idle"
    /\ rpc' = [call |-> "delete_all_clients", args |-> <<>>, pc |-> "set_stop",
               result |-> "none"]
    /\ hist' = [hist EXCEPT !.task_deleted = TRUE]
    /\ UNCHANGED <<rules, rules_map, mutex, stop_event, run_event, pool, gen>>

\* delete_all_clients: if not stop_event.is_set(): with stop_lock: set it
RpcDeleteAllStop ==
    /\ rpc.call = "delete_all_clients" /\ rpc.pc = "set_stop"
    /\ stop_event' = TRUE
    /\ rpc' = [rpc EXCEPT !.pc = "clear"]
    /\ UNCHANGED <<rules, rules_map, mutex, run_event, pool, gen, hist>>

\* delete_all_clients: self._rule_collections.clear_rules()
RpcDeleteAllClear ==
    /\ rpc.call = "delete_all_clients" /\ rpc.pc = "clear"
    /\ mutex = "free"
    /\ rules' = <<>>
    /\ rules_map' = <<>>
    /\ hist' = [(IF rules # <<>> THEN Mutated(hist) ELSE hist)
                   EXCEPT !.last_delete = NoDelete]
    /\ rpc' = [IdleRpc EXCEPT !.result = "ok"]
    /\ UNCHANGED <<mutex, stop_event, run_event, pool, gen>>

\* ---- the dispatch thread: _generate_traffic iterating
\* ---- round_robin_rule_generator, then _cleanup_states

\* generator: while self._rules_map (read without the mutex)
GenWhile ==
    /\ gen.pc = "while"
    /\ gen' = [gen EXCEPT !.pc = IF DOMAIN rules_map # {} THEN "lock" ELSE "callback"]
    /\ UNCHANGED <<rules, rules_map, mutex, stop_event, run_event, pool, rpc, hist>>

\* generator: with self._mutex: item = self._rules[0]; yield item
\* The yield leaves the mutex held.  An empty deque raises IndexError, the
\* with statement releases the mutex and the except clause returns.
GenYield ==
    /\ gen.pc = "lock"
    /\ mutex = "free"
    /\ IF rules # <<>>
          THEN /\ mutex' = "gen"
               /\ gen' = [pc |-> "body", item |-> Head(rules)]
               /\ hist' = IF hist.rr_base = <<>>
                            THEN [hist EXCEPT !.rr_base = rules, !.rr_idx = 1,
                                    !.raised = WentOn(@)]
                            ELSE [hist EXCEPT
                                    !.rr_idx = (@ % Len(hist.rr_base)) + 1,
                                    !.rr_wrapped = @ \/ hist.rr_idx = Len(hist.rr_base),
                                    !.raised = WentOn(@)]
          ELSE /\ gen' = [gen EXCEPT !.pc = "index_error"]
               /\ UNCHANGED <<mutex, hist>>
    /\ UNCHANGED <<rules, rules_map, stop_event, run_event, pool, rpc>>

\* a stop check that never breaks
AfterStopCheckIgnored(stop) == "submit"

\* if stop_event.is_set(): break      where the dispatch thread goes next
AfterStopCheck(stop) == IF stop THEN "close" ELSE "submit"

\* _generate_traffic: with self._stop_lock: if stop_event.is_set(): break
GenCheckStop ==
    /\ gen.pc = "body"
    /\ gen' = [gen EXCEPT !.pc = AfterStopCheck(stop_event)]
    /\ UNCHANGED <<rules, rules_map, mutex, stop_event, run_event, pool, rpc, hist>>

\* _generate_traffic: pick the client class by rule.protocol and
\* self._pool.submit(sender.ping); any other protocol prints and continues.
\* submit blocks while POOL_MAX_WORKERS probes are in flight.
GenSubmit ==
    /\ gen.pc = "submit"
    /\ IF gen.item.protocol \in {"TCP", "UDP", "HTTP"}
          THEN /\ pool >= 0 /\ pool < POOL_MAX_WORKERS
               /\ pool' = pool + 1
               /\ hist' = [hist EXCEPT !.task_probed = TRUE,
                             !.after_stop = IF stop_event /\ @ < 2 THEN @ + 1 ELSE @]
          ELSE UNCHANGED <<pool, hist>>
    /\ gen' = [gen EXCEPT !.pc = "resume"]
    /\ UNCHANGED <<rules, rules_map, mutex, stop_event, run_event, rpc>>

\* an exception that leaves _generate_traffic: the dispatch thread ends
\* without callback()
Uncaught(g) == [g EXCEPT !.pc = "crashed"]

\* except Exception as ex: print(ex)    and the for loop asks the generator
\* for the next rule
CaughtContinue(g) == [g EXCEPT !.pc = "resume"]

\* _generate_traffic: client(rule.source, ...) or self._pool.submit raises
\* before a probe was queued; the except clause of the loop body takes it.
GenSubmitRaised ==
    /\ gen.pc = "submit"
    /\ gen.item.protocol \in {"TCP", "UDP", "HTTP"}
    /\ gen' = CaughtContinue(gen)
    /\ hist' = [hist EXCEPT !.raised = "raised"]
    /\ UNCHANGED <<rules, rules_map, mutex, stop_event, run_event, pool, rpc>>

\* generator resumed by next(): the with statement ends, releasing the mutex
GenResume ==
    /\ gen.pc = "resume"
    /\ mutex = "gen"
    /\ mutex' = "free"
    /\ gen' = [gen EXCEPT !.pc = "finally"]
    /\ UNCHANGED <<rules, rules_map, stop_event, run_event, pool, rpc, hist>>

\* generator: finally: with self._mutex: if item in self._rules_map:
\*     self._rules.rotate(-1)
GenFinally ==
    /\ gen.pc = "finally"
    /\ mutex = "free"
    /\ rules' = IF gen.item \in DOMAIN rules_map THEN Rotate(rules) ELSE rules
    /\ gen' = [gen EXCEPT !.pc = "while"]
    /\ UNCHANGED <<rules_map, mutex, stop_event, run_event, pool, rpc, hist>>

\* break: the generator is closed at its yield (GeneratorExit): the with
\* statement releases the mutex
GenClose ==
    /\ gen.pc = "close"
    /\ mutex = "gen"
    /\ mutex' = "free"
    /\ gen' = [gen EXCEPT !.pc = "close_finally"]
    /\ UNCHANGED <<rules, rules_map, stop_event, run_event, pool, rpc, hist>>

\* the finally clause of the closed generator, then callback()
GenCloseFinally ==
    /\ gen.pc = "close_finally"
    /\ mutex = "free"
    /\ rules' = IF gen.item \in DOMAIN rules_map THEN Rotate(rules) ELSE rules
    /\ gen' = [gen EXCEPT !.pc = "callback"]
    /\ UNCHANGED <<rules_map, mutex, stop_event, run_event, pool, rpc, hist>>

\* after IndexError: the finally clause reads "item"; on the generator's first
\* iteration it was never assigned and UnboundLocalError leaves the
\* generator and the dispatch thread, callback() not being called.
GenIndexErrorFinally ==
    /\ gen.pc = "index_error"
    /\ mutex = "free"
    /\ IF gen.item = Unbound
          THEN /\ gen' = [gen EXCEPT !.pc = "crashed"]
               /\ UNCHANGED rules
          ELSE /\ rules' = IF gen.item \in DOMAIN rules_map
                             THEN Rotate(rules) ELSE rules
               /\ gen' = [gen EXCEPT !.pc = "callback"]
    /\ UNCHANGED <<rules_map, mutex, stop_event, run_event, pool, rpc, hist>>

\* _cleanup_states: if self._pool: self._pool.shutdown()  (waits for the
\* probes in flight)
GenPoolShutdown ==
    /\ gen.pc = "callback"
    /\ pool <= 0
    /\ gen' = [gen EXCEPT !.pc = "cleanup"]
    /\ UNCHANGED <<rules, rules_map, mutex, stop_event, run_event, pool, rpc, hist>>

\* _cleanup_states: with self._stop_lock: self._run_event.clear();
\*     self._stop_event.set(); self._pool = None      and the thread ends
GenCleanup ==
    /\ gen.pc = "cleanup"
    /\ run_event' = FALSE
    /\ stop_event' = TRUE
    /\ pool' = -1
    /\ gen' = NoGen
    /\ UNCHANGED <<rules, rules_map, mutex, rpc, hist>>

\* a probe of the pool finishes (returned or raised): the done callback
\* releases the semaphore
ProbeDone ==
    /\ pool > 0
    /\ pool' = pool - 1
    /\ UNCHANGED <<rules, rules_map, mutex, stop_event, run_event, gen, rpc, hist>>

NextWorker ==
    \/ RpcCallAdd /\ UNCHANGED exceptWorker
    \/ RpcAddRules /\ UNCHANGED exceptWorker
    \/ RpcAddStart /\ UNCHANGED exceptWorker
    \/ RpcCallDelete /\ UNCHANGED exceptWorker
    \/ RpcDeleteRule /\ UNCHANGED exceptWorker
    \/ RpcCallDeleteAll /\ UNCHANGED exceptWorker
    \/ RpcDeleteAllStop /\ UNCHANGED exceptWorker
    \/ RpcDeleteAllClear /\ UNCHANGED exceptWorker
    \/ GenWhile /\ UNCHANGED exceptWorker
    \/ GenYield /\ UNCHANGED exceptWorker
    \/ GenCheckStop /\ UNCHANGED exceptWorker
    \/ GenSubmit /\ UNCHANGED exceptWorker
    \/ GenSubmitRaised /\ UNCHANGED exceptWorker
    \/ GenResume /\ UNCHANGED exceptWorker
    \/ GenFinally /\ UNCHANGED exceptWorker
    \/ GenClose /\ UNCHANGED exceptWorker
    \/ GenCloseFinally /\ UNCHANGED exceptWorker
    \/ GenIndexErrorFinally /\ UNCHANGED exceptWorker
    \/ GenPoolShutdown /\ UNCHANGED exceptWorker
    \/ GenCleanup /\ UNCHANGED exceptWorker
    \/ ProbeDone /\ UNCHANGED exceptWorker

\* every step of the dispatch thread, its exit included
DispatchTask ==
    (GenWhile \/ GenYield \/ GenCheckStop \/ GenSubmit \/ GenSubmitRaised \/ GenResume \/ GenFinally \/ GenClose \/ GenCloseFinally \/ GenIndexErrorFinally \/ GenPoolShutdown \/ GenCleanup)
    /\ UNCHANGED exceptWorker

\* ======================================================================
\* SpecApp: apps/traffic.py TrafficApp, traffic/controller.py
\*          TrafficController, and the worker processes behind the RPC
\* ======================================================================
MaxClientRules == 3     \* rows the clients table can grow to
MaxServerRules == 2     \* rows the servers table can grow to
MaxCpu == 2             \* cpu_count() is in 1..MaxCpu

Min(a, b) == IF a < b THEN a ELSE b

\* CLIENT_WORKER_COUNT = min(2, cpu_count() or 1)
CLIENT_WORKER_COUNT == Min(2, cpu_count)
\* SERVER_WORKER_COUNT = min(2, cpu_count() or 1)
SERVER_WORKER_COUNT == Min(2, cpu_count)

\* The protocol of the k-th row of the servers table
ServerProtocolOf(k) ==
    CASE k % 3 = 1 -> "TCP"
      [] k % 3 = 2 -> "UDP"
      [] OTHER     -> "HTTP"

\* rules_store.get_clients(..., enabled=en) / get_servers: the rows, in table
\* order, that match the filter.  A filter is 0 (no criterion) or the
\* identity tuple of row f; en is the set of enabled flags that pass
\* (BOOLEAN when enabled is None).  Row k has
\* id k; the runs explored register every identity tuple once.
RECURSIVE GetRules(_, _, _, _)
GetRules(table, f, en, k) ==
    IF k > Len(table) THEN <<>>
    ELSE (IF (f = 0 \/ f = k) /\ table[k] \in en
            THEN <<[id |-> k, enabled |-> table[k]]>> ELSE <<>>)
         \o GetRules(table, f, en, k + 1)

\* rules_store.enable_* / disable_*: set enabled := to on the rows that
\* match the filter and have enabled = ~to
SetEnabled(table, f, to) ==
    [k \in DOMAIN table |->
        IF (f = 0 \/ f = k) /\ table[k] = ~to THEN to ELSE table[k]]

\* result.rowcount of that update
RowCount(table, f, to) ==
    Cardinality({k \in DOMAIN table : (f = 0 \/ f = k) /\ table[k] = ~to})

\* ---- registries (MemCache): a key is "<type>_<id>"
Key(type, id) == [prefix |-> type, id |-> id]

\* MemCache.add on an insertion-ordered dict
CacheAdd(cache, key, value) ==
    IF \E i \in DOMAIN cache : cache[i].key = key
        THEN [i \in DOMAIN cache |->
                IF cache[i].key = key THEN [key |-> key, value |-> value]
                ELSE cache[i]]
        ELSE Append(cache, [key |-> key, value |-> value])

\* MemCache.get(key) is not None
CacheHas(cache, key) == \E i \in DOMAIN cache : cache[i].key = key

\* MemCache.get(key), for a key the cache has
CacheGet(cache, key) ==
    cache[CHOOSE i \in DOMAIN cache : cache[i].key = key].value

\* delete_many that deletes nothing
CacheDeleteNone(cache, keys) == cache

\* MemCache.delete_many(keys)
CacheDeleteMany(cache, keys) ==
    SelectSeq(cache, LAMBDA e : e.key \notin keys)

\* every key of the registry, of whatever type
GetAllKeysAnyType(cache, type) == [i \in DOMAIN cache |-> cache[i].key]

\* _get_all_rules / _get_all_workers: the keys that start with the type
GetAllKeys(cache, type) ==
    LET of == SelectSeq(cache, LAMBDA e : e.key.prefix = type)
    IN  [i \in DOMAIN of |-> of[i].key]

Range(s) == {s[i] : i \in DOMAIN s}

\* ---- the worker processes

NewWorker(type) ==
    [type |-> type, alive |-> TRUE, held |-> <<>>, listeners |-> <<>>]

\* what ServerFactory.create_server(...).result() is for the protocol:
\* an asyncio Server, or the (transport, protocol) pair of a datagram endpoint
ListenerOf(protocol) == IF protocol = "UDP" THEN "tuple" ELSE "server"

\* rule in collection / server in self._servers: by identity tuple
Holds(w, rule) == \E i \in DOMAIN w.held : w.held[i].id = rule.id

\* TrafficGenWorker.add_clients (add_rules) and TrafficServerWorker.add_servers
\* as one RPC: a rule equal to one already held is skipped; a server gets
\* its listener.
RECURSIVE WorkerAdd(_, _)
WorkerAdd(w, rs) ==
    IF rs = <<>> THEN w
    ELSE LET r == Head(rs)
             w1 == IF Holds(w, r) THEN w
                   ELSE [w EXCEPT
                          !.held = Append(@, r),
                          !.listeners =
                            IF w.type = "server"
                              THEN Append(@, [id |-> r.id,
                                              kind |-> ListenerOf(ServerProtocolOf(r.id))])
                              ELSE @]
         IN  WorkerAdd(w1, Tail(rs))

\* TrafficServerWorker.delete_all_servers: "for server in self._servers" while
\* the loop body removes from that list: after the removal at position i the
\* iteration goes on at position i + 1 of the shortened list.  _stop_server
\* calls close() on the stored listener, which a datagram endpoint's pair
\* does not have (AttributeError).
RECURSIVE DeleteAllServers(_, _)
DeleteAllServers(w, i) ==
    IF i > Len(w.held) THEN [w |-> w, exc |-> "none"]
    ELSE LET server == w.held[i]
             at == CHOOSE j \in DOMAIN w.listeners : w.listeners[j].id = server.id
         IN  IF w.listeners[at].kind = "tuple"
                THEN [w |-> w, exc |-> "AttributeError"]
                ELSE DeleteAllServers(
                        [w EXCEPT
                          !.listeners = SubSeq(@, 1, at - 1) \o SubSeq(@, at + 1, Len(@)),
                          !.held = SubSeq(@, 1, i - 1) \o SubSeq(@, i + 1, Len(@))],
                        i + 1)

\* the delete-all RPC of a worker: delete_all_clients (clear_rules) or
\* delete_all_servers
WorkerDeleteAll(w) ==
    IF w.type = "client"
        THEN [w |-> [w EXCEPT !.held = <<>>], exc |-> "none"]
        ELSE DeleteAllServers(w, 1)

\* ---- the controller.  ctl = [wreg, rreg, procs]; every operation returns
\* ---- [ctl, exc]

Ctl == [wreg |-> workers_registry, rreg |-> rules_registry, procs |-> workers]

\* new_rules = [rule for rule in rules if key not in existing_rules],
\* without the test (every rule counts as new)
NewRulesUnfiltered(rreg, type, rs) == rs

\* new_rules = [rule for rule in rules if "<type>_<id>" not in existing_rules]
NewRules(rreg, type, rs) ==
    LET existing == Range(GetAllKeys(rreg, type))
    IN  SelectSeq(rs, LAMBDA r : Key(type, r.id) \notin existing)

\* int(math.ceil(float(len(new_rules)) / workers))
RulesPerWorker(n, w) == (n + w - 1) \div w

\* new_rules[start:end] with one rule more in the slice
SliceOneMore(rs, start, end) ==
    SubSeq(rs, Min(start, Len(rs)) + 1, Min(end + 1, Len(rs)))

\* new_rules[start:end]
Slice(rs, start, end) ==
    SubSeq(rs, Min(start, Len(rs)) + 1, Min(end, Len(rs)))

\* for rule in rules: self._rules_registry.add("<type>_<id>", context)
RECURSIVE RegisterRules(_, _, _, _)
RegisterRules(rreg, type, rs, uid) ==
    IF rs = <<>> THEN rreg
    ELSE RegisterRules(CacheAdd(rreg, Key(type, Head(rs).id), uid),
                       type, Tail(rs), uid)

\* _add_rules_to_existing_workers: "for worker, index in
\* enumerate(self._get_all_workers(worker_type))" binds worker to the
\* position and index to the key string, so start = rules_per_worker * index
\* is a string and end = start + rules_per_worker raises TypeError in the
\* first iteration, before any RPC.
AddRulesToExistingWorkers(ctl, new_rules, rules_per_worker, type) ==
    IF GetAllKeys(ctl.wreg, type) = <<>>
        THEN [ctl |-> ctl, exc |-> "none"]
        ELSE [ctl |-> ctl, exc |-> "TypeError"]

\* _create_workers_and_add_rules, iterations i .. workers_to_be_created - 1
RECURSIVE CreateWorkersAndAddRules(_, _, _, _, _, _)
CreateWorkersAndAddRules(ctl, new_rules, i, workers_to_be_created, rules_per_worker, type) ==
    IF i >= workers_to_be_created THEN [ctl |-> ctl, exc |-> "none"]
    ELSE LET start == rules_per_worker * i
             end   == start + rules_per_worker
             rs    == Slice(new_rules, start, end)
             uid   == Len(ctl.procs) + 1
         IN  IF rs = <<>> THEN [ctl |-> ctl, exc |-> "none"]
             ELSE CreateWorkersAndAddRules(
                    [wreg  |-> CacheAdd(ctl.wreg, Key(type, uid), uid),
                     rreg  |-> RegisterRules(ctl.rreg, type, rs, uid),
                     procs |-> Append(ctl.procs, WorkerAdd(NewWorker(type), rs))],
                    new_rules, i + 1, workers_to_be_created,
                    rules_per_worker, type)

\* start_servers / start_clients
StartRules(ctl, type, rs, worker_count) ==
    LET new_rules == NewRules(ctl.rreg, type, rs)
        current_workers == Len(GetAllKeys(ctl.wreg, type))
        rules_per_worker == RulesPerWorker(Len(new_rules), worker_count)
    IN  IF current_workers # 0 /\ current_workers = worker_count
            THEN AddRulesToExistingWorkers(ctl, new_rules, rules_per_worker, type)
            ELSE CreateWorkersAndAddRules(ctl, new_rules, 0,
                                          worker_count - current_workers,
                                          rules_per_worker, type)

\* _delete_rule_from_worker: workers_rule_map is keyed by the owner's uid;
\* self._workers_registry.get(uid) finds no "<type>_<uid>" key and returns
\* None, and context.get('address') raises AttributeError before any RPC.
DeleteRuleFromWorker(ctl, rs, type) ==
    LET owned == SelectSeq(rs, LAMBDA r : CacheHas(ctl.rreg, Key(type, r.id)))
    IN  IF owned = <<>> THEN [ctl |-> ctl, exc |-> "none"]
        ELSE LET worker == CacheGet(ctl.rreg, Key(type, owned[1].id))
             IN  IF ~CacheHas(ctl.wreg, [id |-> worker])
                    THEN [ctl |-> ctl, exc |-> "AttributeError"]
                    ELSE [ctl |-> ctl, exc |-> "unreached"]

\* _delete_all_rules_from_workers, the loop from the i-th worker key on:
\* delete-all RPC (which needs the worker's listener socket: a stopped
\* worker's is closed and unlinked), then process.stop()
RECURSIVE StopWorkers(_, _, _)
StopWorkers(ctl, keys, i) ==
    IF i > Len(keys) THEN [ctl |-> ctl, exc |-> "none"]
    ELSE LET uid == CacheGet(ctl.wreg, keys[i])
             w   == ctl.procs[uid]
         IN  IF ~w.alive THEN [ctl |-> ctl, exc |-> "ConnectionError"]
             ELSE LET out == WorkerDeleteAll(w)
                  IN  IF out.exc # "none"
                        THEN [ctl |-> [ctl EXCEPT !.procs[uid] = out.w],
                              exc |-> out.exc]
                        ELSE StopWorkers(
                               [ctl EXCEPT !.procs[uid] =
                                             [out.w EXCEPT !.alive = FALSE]],
                               keys, i + 1)

\* _delete_all_rules_from_workers
DeleteAllRulesFromWorkers(ctl, type) ==
    LET out == StopWorkers(ctl, GetAllKeys(ctl.wreg, type), 1)
    IN  IF out.exc # "none" THEN out
        ELSE [ctl |-> [out.ctl EXCEPT !.rreg =
                         CacheDeleteMany(@, Range(GetAllKeys(out.ctl.rreg, type)))],
              exc |-> "none"]

\* ---- the application

InitApp ==
    /\ cpu_count \in 1..MaxCpu
    /\ clients_table = <<>>
    /\ servers_table = <<>>
    /\ workers_registry = <<>>
    /\ rules_registry = <<>>
    /\ workers = <<>>
    /\ last_call = [op |-> "none", type |-> "none", rules |-> <<>>,
                    exc |-> "none", workers_before |-> 0]

AppIdle ==
    /\ cpu_count = 1
    /\ clients_table = <<>>
    /\ servers_table = <<>>
    /\ workers_registry = <<>>
    /\ rules_registry = <<>>
    /\ workers = <<>>
    /\ last_call = [op |-> "none", type |-> "none", rules |-> <<>>,
                    exc |-> "none", workers_before |-> 0]

\* a call into the controller takes effect; last_call keeps the call, its
\* rules, what it raised and how many workers of the type there were
Apply(op, type, rs, out) ==
    /\ workers_registry' = out.ctl.wreg
    /\ rules_registry' = out.ctl.rreg
    /\ workers' = out.ctl.procs
    /\ last_call' = [op |-> op, type |-> type, rules |-> rs, exc |-> out.exc,
                     workers_before |-> Len(GetAllKeys(workers_registry, type))]

\* an app operation that raised before it reached the controller
\* (rules_store raises when the update matched no row)
Raised ==
    UNCHANGED <<workers_registry, rules_registry, workers, last_call>>

\* register_traffic / register_clients: rules not yet in the store are
\* inserted with fresh ids; a client row takes the declared enabled flag.
\* The runs explored populate one of the two tables (the two kinds of rule
\* share no registry key and no worker).
RegisterClients ==
    /\ Len(clients_table) < MaxClientRules
    /\ servers_table = <<>>
    /\ \E enabled \in BOOLEAN : clients_table' = Append(clients_table, enabled)
    /\ UNCHANGED <<cpu_count, servers_table, workers_registry, rules_registry,
                   workers, last_call>>

\* register_traffic / register_servers: a server row is enabled by default
RegisterServers ==
    /\ Len(servers_table) < MaxServerRules
    /\ clients_table = <<>>
    /\ servers_table' = Append(servers_table, TRUE)
    /\ UNCHANGED <<cpu_count, clients_table, workers_registry, rules_registry,
                   workers, last_call>>

\* the rows start_clients hands over, whatever their enabled flag
ClientRulesToStartAny(f) == GetRules(clients_table, f, BOOLEAN, 1)

\* TrafficApp.start_clients: get_clients(..., enabled=True)
ClientRulesToStart(f) == GetRules(clients_table, f, {TRUE}, 1)

\* TrafficApp.start_clients(filter)
StartClients ==
    /\ \E f \in 0..Len(clients_table) :
        LET rs == ClientRulesToStart(f)
        IN  Apply("start_clients", "client", rs,
                  StartRules(Ctl, "client", rs, CLIENT_WORKER_COUNT))
    /\ UNCHANGED <<cpu_count, clients_table, servers_table>>

\* TrafficApp.stop_clients(filter)
StopClients ==
    /\ \E f \in 0..Len(clients_table) :
        LET rs == GetRules(clients_table, f, {TRUE}, 1)
        IN  Apply("stop_clients", "client", rs,
                  DeleteRuleFromWorker(Ctl, rs, "client"))
    /\ UNCHANGED <<cpu_count, clients_table, servers_table>>

\* TrafficApp.enable_clients_rule(filter)
EnableClientsRule ==
    /\ \E f \in 0..Len(clients_table) :
        IF RowCount(clients_table, f, TRUE) = 0
            THEN Raised
                 /\ UNCHANGED clients_table
            ELSE LET table == SetEnabled(clients_table, f, TRUE)
                     rs == GetRules(table, f, {TRUE}, 1)
                 IN  /\ clients_table' = table
                     /\ Apply("start_clients", "client", rs,
                              StartRules(Ctl, "client", rs, CLIENT_WORKER_COUNT))
    /\ UNCHANGED <<cpu_count, servers_table>>

\* TrafficApp.disable_clients_rule(filter)
DisableClientsRule ==
    /\ \E f \in 0..Len(clients_table) :
        IF RowCount(clients_table, f, FALSE) = 0
            THEN Raised
                 /\ UNCHANGED clients_table
            ELSE LET table == SetEnabled(clients_table, f, FALSE)
                     rs == GetRules(table, f, {FALSE}, 1)
                 IN  /\ clients_table' = table
                     /\ Apply("stop_clients", "client", rs,
                              DeleteRuleFromWorker(Ctl, rs, "client"))
    /\ UNCHANGED <<cpu_count, servers_table>>

\* TrafficApp.start_servers(filter)
StartServers ==
    /\ \E f \in 0..Len(servers_table) :
        LET rs == GetRules(servers_table, f, {TRUE}, 1)
        IN  Apply("start_servers", "server", rs,
                  StartRules(Ctl, "server", rs, SERVER_WORKER_COUNT))
    /\ UNCHANGED <<cpu_count, clients_table, servers_table>>

\* TrafficApp.stop_servers(filter)
StopServers ==
    /\ \E f \in 0..Len(servers_table) :
        LET rs == GetRules(servers_table, f, {TRUE}, 1)
        IN  Apply("stop_servers", "server", rs,
                  DeleteRuleFromWorker(Ctl, rs, "server"))
    /\ UNCHANGED <<cpu_count, clients_table, servers_table>>

\* TrafficApp.enable_servers_rule(filter): the store only
EnableServersRule ==
    /\ \E f \in 0..Len(servers_table) :
        IF RowCount(servers_table, f, TRUE) = 0
            THEN Raised
                 /\ UNCHANGED servers_table
            ELSE /\ servers_table' = SetEnabled(servers_table, f, TRUE)
                 /\ UNCHANGED <<workers_registry, rules_registry, workers,
                                last_call>>
    /\ UNCHANGED <<cpu_count, clients_table>>

\* TrafficApp.disable_servers_rule(filter): the store only
DisableServersRule ==
    /\ \E f \in 0..Len(servers_table) :
        IF RowCount(servers_table, f, FALSE) = 0
            THEN Raised
                 /\ UNCHANGED servers_table
            ELSE /\ servers_table' = SetEnabled(servers_table, f, FALSE)
                 /\ UNCHANGED <<workers_registry, rules_registry, workers,
                                last_call>>
    /\ UNCHANGED <<cpu_count, clients_table>>

\* TrafficController.stop_all_clients()
StopAllClients ==
    /\ Apply("stop_all_clients", "client", <<>>,
             DeleteAllRulesFromWorkers(Ctl, "client"))
    /\ UNCHANGED <<cpu_count, clients_table, servers_table>>

\* TrafficController.stop_all_servers()
StopAllServers ==
    /\ Apply("stop_all_servers", "server", <<>>,
             DeleteAllRulesFromWorkers(Ctl, "server"))
    /\ UNCHANGED <<cpu_count, clients_table, servers_table>>

\* TrafficApp.shutdown(): self.stop_clients() and then self.start_servers(),
\* both without a filter; an exception of stop_clients ends the call
Shutdown ==
    /\ LET cs == GetRules(clients_table, 0, {TRUE}, 1)
           stopped == DeleteRuleFromWorker(Ctl, cs, "client")
           ss == GetRules(servers_table, 0, {TRUE}, 1)
       IN  IF stopped.exc # "none"
             THEN Apply("shutdown", "client", cs, stopped)
             ELSE Apply("shutdown", "server", ss,
                        StartRules(stopped.ctl, "server", ss, SERVER_WORKER_COUNT))
    /\ UNCHANGED <<cpu_count, clients_table, servers_table>>

NextApp ==
    \/ RegisterClients /\ UNCHANGED exceptApp
    \/ RegisterServers /\ UNCHANGED exceptApp
    \/ StartClients /\ UNCHANGED exceptApp
    \/ StopClients /\ UNCHANGED exceptApp
    \/ EnableClientsRule /\ UNCHANGED exceptApp
    \/ DisableClientsRule /\ UNCHANGED exceptApp
    \/ StartServers /\ UNCHANGED exceptApp
    \/ StopServers /\ UNCHANGED exceptApp
    \/ EnableServersRule /\ UNCHANGED exceptApp
    \/ DisableServersRule /\ UNCHANGED exceptApp
    \/ StopAllClients /\ UNCHANGED exceptApp
    \/ StopAllServers /\ UNCHANGED exceptApp
    \/ Shutdown /\ UNCHANGED exceptApp

\* ---- the same application holding client rules and server rules at once
MaxScopeRules == 2      \* rows each of the two tables can grow to

\* register_traffic / register_clients, whatever the servers table holds
RegisterClientRow ==
    /\ Len(clients_table) < MaxScopeRules
    /\ \E enabled \in BOOLEAN : clients_table' = Append(clients_table, enabled)
    /\ UNCHANGED <<cpu_count, servers_table, workers_registry, rules_registry,
                   workers, last_call>>

\* register_traffic / register_servers, whatever the clients table holds
RegisterServerRow ==
    /\ Len(servers_table) < MaxScopeRules
    /\ servers_table' = Append(servers_table, TRUE)
    /\ UNCHANGED <<cpu_count, clients_table, workers_registry, rules_registry,
                   workers, last_call>>

NextScope ==
    \/ RegisterClientRow /\ UNCHANGED exceptApp
    \/ RegisterServerRow /\ UNCHANGED exceptApp
    \/ StartClients /\ UNCHANGED exceptApp
    \/ StopClients /\ UNCHANGED exceptApp
    \/ StartServers /\ UNCHANGED exceptApp
    \/ StopServers /\ UNCHANGED exceptApp
    \/ StopAllClients /\ UNCHANGED exceptApp
    \/ StopAllServers /\ UNCHANGED exceptApp

\* ======================================================================
\* SpecRace: add_clients(R) and delete_clients(R) sent to one client worker
\*           by two RPC clients at once (rpc_server.py, clients/worker.py)
\* ======================================================================

RaceIdle == race = [R |-> <<>>, pending |-> {}]

\* A fresh worker; two clients have connected, one to call add_clients(R)
\* and one to call delete_clients(R).  In half of the runs an earlier
\* add_clients(R) ("pre_add") is served before either of them.
InitRace ==
    race \in [R : RuleLists,
              pending : {{"add", "delete"}, {"pre_add", "add", "delete"}}]

\* RPCServer.run: request = self._socket.accept(); self._handle_request(request)
\* The server serves one connection at a time, in the order the listener
\* accepted them; the next call is read when the previous one was answered.
RaceAccept ==
    /\ rpc.call = "idle"
    /\ \E c \in race.pending :
        /\ "pre_add" \in race.pending => c = "pre_add"
        /\ race' = [race EXCEPT !.pending = @ \ {c}]
        /\ IF c = "delete"
              THEN /\ rpc' = [call |-> "delete_clients", args |-> race.R,
                              pc |-> "delete", result |-> "none"]
                   /\ hist' = [hist EXCEPT !.task_deleted = TRUE]
              ELSE /\ rpc' = [call |-> "add_clients", args |-> race.R,
                              pc |-> "add_rules", result |-> "none"]
                   /\ UNCHANGED hist
    /\ UNCHANGED <<rules, rules_map, mutex, stop_event, run_event, pool, gen>>

NextRace ==
    \/ RaceAccept /\ UNCHANGED exceptRace
    \/ RpcAddRules /\ UNCHANGED <<exceptRace, raceVars>>
    \/ RpcAddStart /\ UNCHANGED <<exceptRace, raceVars>>
    \/ RpcDeleteRule /\ UNCHANGED <<exceptRace, raceVars>>
    \/ GenWhile /\ UNCHANGED <<exceptRace, raceVars>>
    \/ GenYield /\ UNCHANGED <<exceptRace, raceVars>>
    \/ GenCheckStop /\ UNCHANGED <<exceptRace, raceVars>>
    \/ GenSubmit /\ UNCHANGED <<exceptRace, raceVars>>
    \/ GenSubmitRaised /\ UNCHANGED <<exceptRace, raceVars>>
    \/ GenResume /\ UNCHANGED <<exceptRace, raceVars>>
    \/ GenFinally /\ UNCHANGED <<exceptRace, raceVars>>
    \/ ProbeDone /\ UNCHANGED <<exceptRace, raceVars>>

\* ======================================================================
\* SpecMetrics: common/metric_cache.py Counter, MetricsCache and
\*              ExchangeReporter.report, with probe threads incrementing
\* ======================================================================
MaxIncs == 3            \* increments a run makes on one key

\* the keys of the cache: the success and the failure key of one target
MetricKeys == {to_metric("src:dst:port:TCP", TRUE, ok) : ok \in BOOLEAN}

\* Counter.clear() in the place of dec(count): the count becomes 0
CounterClear(count, val) == 0

\* Counter.dec(val): inc(-val), under the counter's lock
CounterDec(count, val) == count + (0 - val)

ReporterIdle == [pc |-> "idle", todo |-> {}, key |-> <<>>, count |-> 0,
                 count_dict |-> <<>>]

\* counters that were created by earlier records, all drained
InitMetrics ==
    /\ mcache = [k \in MetricKeys |-> 0]
    /\ reporter = ReporterIdle
    /\ mhist = [incs |-> [k \in MetricKeys |-> 0],
                emitted |-> [k \in MetricKeys |-> 0]]

MetricsIdle ==
    /\ mcache = <<>>
    /\ reporter = ReporterIdle
    /\ mhist = [incs |-> <<>>, emitted |-> <<>>]

\* a probe thread: counter.inc() (with self._lock: self._count += val)
CounterIncStep ==
    /\ \E k \in MetricKeys :
        /\ mhist.incs[k] < MaxIncs
        /\ mcache' = [mcache EXCEPT ![k] = @ + 1]
        /\ mhist' = [mhist EXCEPT !.incs[k] = @ + 1]
    /\ UNCHANGED reporter

\* report: metrics = cache.dump_metrics(); count_dict = {}
ReportDump ==
    /\ reporter.pc = "idle"
    /\ reporter' = [ReporterIdle EXCEPT !.pc = "loop", !.todo = DOMAIN mcache]
    /\ UNCHANGED <<mcache, mhist>>

\* report: for key in metrics.keys(): count = counter.count();
\*     if count == 0: continue
ReportCount ==
    /\ reporter.pc = "loop"
    /\ \E k \in reporter.todo :
        reporter' = [reporter EXCEPT
                        !.todo = @ \ {k},
                        !.key = k,
                        !.count = mcache[k],
                        !.pc = IF mcache[k] = 0 THEN "loop" ELSE "dec"]
    /\ UNCHANGED <<mcache, mhist>>

\* report: count_dict.update({key: count}); counter.dec(count)
ReportDec ==
    /\ reporter.pc = "dec"
    /\ mcache' = [mcache EXCEPT ![reporter.key] = CounterDec(@, reporter.count)]
    /\ reporter' = [reporter EXCEPT
                      !.pc = "loop",
                      !.count_dict =
                        [k \in DOMAIN reporter.count_dict \cup {reporter.key} |->
                            IF k = reporter.key THEN reporter.count
                            ELSE reporter.count_dict[k]]]
    /\ UNCHANGED mhist

\* report: if count_dict: self._exchange.send(count_dict)
ReportSend ==
    /\ reporter.pc = "loop"
    /\ reporter.todo = {}
    /\ mhist' = [mhist EXCEPT !.emitted =
                    [k \in DOMAIN mhist.emitted |->
                        IF k \in DOMAIN reporter.count_dict
                            THEN mhist.emitted[k] + reporter.count_dict[k]
                            ELSE mhist.emitted[k]]]
    /\ reporter' = ReporterIdle
    /\ UNCHANGED mcache

NextMetrics ==
    \/ CounterIncStep /\ UNCHANGED exceptMetrics
    \/ ReportDump /\ UNCHANGED exceptMetrics
    \/ ReportCount /\ UNCHANGED exceptMetrics
    \/ ReportDec /\ UNCHANGED exceptMetrics
    \/ ReportSend /\ UNCHANGED exceptMetrics

\* ======================================================================
\* SpecExchange: common/monit_queues.py Exchange and ExchangeManager
\* ======================================================================
MaxSends == 3           \* Exchange.send calls of a run; message m is the m-th
MaxTime == 3            \* the clock runs from 0 to MaxTime seconds
MaxBufferInterval == 2  \* buffer_interval of the subscriber is 1..MaxBufferInterval

Subscribers == {"sql"}

\* Exchange.attach(task, buffer_interval) at time t
Attach(t, buffer_interval) ==
    [queue |-> <<>>, buffer_interval |-> buffer_interval,
     next_fire_time |-> t + buffer_interval]

\* the exchange was created and the subscriber attached at time 0
InitExchange ==
    /\ now = 0
    /\ xqueue = <<>>
    /\ \E bi \in 1..MaxBufferInterval :
        subs = [sub \in Subscribers |-> Attach(0, bi)]
    /\ handled = [sub \in Subscribers |-> <<>>]
    /\ nsent = 0

ExchangeIdle ==
    /\ now = 0
    /\ xqueue = <<>>
    /\ subs = <<>>
    /\ handled = <<>>
    /\ nsent = 0

\* Exchange.send(item): self._queue.put(item); self._putsocket.send(b'x')
ExchangeSend ==
    /\ nsent < MaxSends
    /\ nsent' = nsent + 1
    /\ xqueue' = Append(xqueue, nsent + 1)
    /\ UNCHANGED <<now, subs, handled>>

\* Exchange._send: current_time >= details['next_fire_time']
Fires(details, current_time) == current_time >= details.next_fire_time

\* ExchangeManager.run -> _handle_read_queus -> Exchange._recieve: take one
\* message, append it to the queue of every subscriber, then _send():
\* every subscriber whose next_fire_time has come gets its queue as one
\* batch (in a thread running handle) and a new, empty queue.
ExchangeRecieve ==
    /\ xqueue # <<>>
    /\ xqueue' = Tail(xqueue)
    /\ LET message == Head(xqueue)
           queued == [sub \in DOMAIN subs |->
                        [subs[sub] EXCEPT !.queue = Append(@, message)]]
       IN  /\ subs' = [sub \in DOMAIN subs |->
                        IF Fires(queued[sub], now)
                            THEN [queued[sub] EXCEPT
                                    !.next_fire_time = now + queued[sub].buffer_interval,
                                    !.queue = <<>>]
                            ELSE queued[sub]]
           /\ handled' = [sub \in DOMAIN handled |->
                            IF Fires(queued[sub], now)
                                THEN Append(handled[sub], queued[sub].queue)
                                ELSE handled[sub]]
    /\ UNCHANGED <<now, nsent>>

\* a second passes
Tick ==
    /\ now < MaxTime
    /\ now' = now + 1
    /\ UNCHANGED <<xqueue, subs, handled, nsent>>

NextExchange ==
    \/ ExchangeSend /\ UNCHANGED exceptExchange
    \/ ExchangeRecieve /\ UNCHANGED exceptExchange
    \/ Tick /\ UNCHANGED exceptExchange

\* ======================================================================
\* SpecRecorder: common/subscribers.py SQLRecorder.handle
\* ======================================================================
MaxBatch == 2           \* messages in a batch

\* the metric keys of the messages: two outcomes of a connected target and
\* the success of an unconnected one
RecorderKeys ==
    {to_metric("src:dst:port:TCP", TRUE, TRUE),
     to_metric("src:dst:port:TCP", TRUE, FALSE),
     to_metric("src:dst:port:TCP", FALSE, TRUE)}

\* the values a reporter drains
MetricValues == {1, 2}

\* a message is the count_dict of one drain: a non-empty dict
Messages ==
    UNION {[ks -> MetricValues] : ks \in (SUBSET RecorderKeys) \ {{}}}

Batches == UNION {[1..n -> Messages] : n \in 1..MaxBatch}

NotRun == [run |-> FALSE]

InitRecorder ==
    /\ batch \in Batches
    /\ rows = NotRun

RecorderIdle ==
    /\ batch = <<>>
    /\ rows = NotRun

\* TrafficRecord.is_success(metric): "success" in metric
is_success(metric) == metric[3] = "success"

\* str(TrafficRecord.from_metric(metric)): the fields of the key without
\* its result
RecordStr(metric) == <<metric[1], metric[2]>>

\* One pass of the inner loop of handle(): the record of the key is looked
\* up in traffic_records_map (a new record has both counts 0) and
\* record.success_count = value or record.failure_count = value
HandleMetric(records_map, metric, value) ==
    LET key == RecordStr(metric)
        found == IF key \in DOMAIN records_map THEN records_map[key]
                  ELSE [success_count |-> 0, failure_count |-> 0]
        updated == IF is_success(metric)
                     THEN [found EXCEPT !.success_count = value]
                     ELSE [found EXCEPT !.failure_count = value]
    IN  [k \in DOMAIN records_map \cup {key} |->
            IF k = key THEN updated ELSE records_map[k]]

\* for metric, value in message.items()
RECURSIVE HandleMessage(_, _, _)
HandleMessage(records_map, message, todo) ==
    IF todo = {} THEN records_map
    ELSE LET metric == CHOOSE k \in todo : TRUE
         IN  HandleMessage(HandleMetric(records_map, metric, message[metric]),
                           message, todo \ {metric})

\* for message in messages
RECURSIVE HandleMessages(_, _)
HandleMessages(records_map, messages) ==
    IF messages = <<>> THEN records_map
    ELSE HandleMessages(
            HandleMessage(records_map, Head(messages), DOMAIN Head(messages)),
            Tail(messages))

\* SQLRecorder.handle(messages)
Handle ==
    /\ rows = NotRun
    /\ rows' = HandleMessages(<<>>, batch)
    /\ UNCHANGED batch

NextRecorder ==
    \/ Handle /\ UNCHANGED exceptRecorder

\* ======================================================================
\* SpecEquality: traffic_objects.py TrafficServer and TrafficRule
\* ======================================================================
TrafficServers ==
    [class : {"TrafficServer"}, id : {1, 2}, endpoint : {"10.0.0.1", "10.0.0.2"},
     port : {80, 81}, protocol : {"TCP", "UDP"}, enabled : BOOLEAN]

TrafficRules ==
    [class : {"TrafficRule"}, id : {1, 2}, source : {"10.0.0.1"},
     destination : {"10.0.0.2", "10.0.0.3"}, port : {80},
     protocol : {"TCP", "UDP"}, allowed : BOOLEAN, enabled : BOOLEAN]

NotCompared == [done |-> FALSE]

InitEquality ==
    /\ pair \in (TrafficServers \X TrafficServers) \cup (TrafficRules \X TrafficRules)
    /\ cmp = NotCompared

EqualityIdle ==
    /\ pair = <<>>
    /\ cmp = NotCompared

\* TrafficServer.__str__: the class name and the four fields it formats
TrafficServerStr(self) ==
    <<"TrafficServer", self.endpoint, self.port, self.protocol, PyStrBool(self.enabled)>>

\* TrafficServer.__eq__
TrafficServerEq(self, other) ==
    /\ self.endpoint = other.endpoint
    /\ self.port = other.port
    /\ self.protocol = other.protocol

\* TrafficRule.__str__
TrafficRuleStr(self) ==
    <<"TrafficRule", self.source, self.destination, self.port, self.protocol,
      PyStrBool(self.allowed)>>

\* TrafficRule.__eq__
TrafficRuleEq(self, other) ==
    /\ self.source = other.source
    /\ self.destination = other.destination
    /\ self.port = other.port
    /\ self.protocol = other.protocol
    /\ self.allowed = other.allowed

\* hash() of a str: equal strings hash equally, and the hashes of the few
\* different strings of a run are taken to differ
PyHash(str) == str

\* __hash__ of both classes: hash(self.__str__())
Hash(self) ==
    IF self.class = "TrafficServer" THEN PyHash(TrafficServerStr(self))
    ELSE PyHash(TrafficRuleStr(self))

\* a == b
Eq(self, other) ==
    IF self.class = "TrafficServer" THEN TrafficServerEq(self, other)
    ELSE TrafficRuleEq(self, other)

CompareServers ==
    /\ cmp = NotCompared
    /\ pair[1].class = "TrafficServer"
    /\ cmp' = [done |-> TRUE, eq |-> Eq(pair[1], pair[2]),
               hashes |-> <<Hash(pair[1]), Hash(pair[2])>>]
    /\ UNCHANGED pair

CompareRules ==
    /\ cmp = NotCompared
    /\ pair[1].class = "TrafficRule"
    /\ cmp' = [done |-> TRUE, eq |-> Eq(pair[1], pair[2]),
               hashes |-> <<Hash(pair[1]), Hash(pair[2])>>]
    /\ UNCHANGED pair

NextEquality ==
    \/ CompareServers /\ UNCHANGED exceptEquality
    \/ CompareRules /\ UNCHANGED exceptEquality

\* ======================================================================
\* SpecConvert: traffic_objects.py TrafficRecord.to_metric / from_metric
\* ======================================================================
\* A Python value is its type and its value; a str is a sequence of characters.
PyStrOf(chars) == [type |-> "str", val |-> chars]
PyIntOf(n) == [type |-> "int", val |-> n]
PyBoolOf(b) == [type |-> "bool", val |-> b]

Digit == <<"0", "1", "2", "3", "4", "5", "6", "7", "8", "9">>

\* str(n) of a natural number
RECURSIVE IntStr(_)
IntStr(n) ==
    IF n < 10 THEN <<Digit[n + 1]>>
    ELSE IntStr(n \div 10) \o <<Digit[(n % 10) + 1]>>

\* "{}".format(v)
PyFormat(v) ==
    CASE v.type = "str" -> v.val
      [] v.type = "int" -> IntStr(v.val)
      [] v.type = "bool" -> IF v.val THEN <<"T", "r", "u", "e">>
                            ELSE <<"F", "a", "l", "s", "e">>

\* sep.join(parts)
RECURSIVE Join(_, _)
Join(parts, sep) ==
    IF Len(parts) = 1 THEN Head(parts)
    ELSE Head(parts) \o <<sep>> \o Join(Tail(parts), sep)

\* str.split(sep)
RECURSIVE Split(_, _)
Split(str, sep) ==
    IF str = <<>> THEN << <<>> >>
    ELSE LET rest == Split(Tail(str), sep)
         IN  IF Head(str) = sep THEN << <<>> >> \o rest
             ELSE << <<Head(str)>> \o Head(rest) >> \o Tail(rest)

\* sub in str
Contains(str, sub) ==
    \E i \in 0..(Len(str) - Len(sub)) :
        \A j \in 1..Len(sub) : str[i + j] = sub[j]

\* TrafficRecord.to_metric
ToMetric(source, destination, port, protocol, connected, success) ==
    Join(<<PyFormat(source), PyFormat(destination), PyFormat(port),
           PyFormat(protocol), PyFormat(connected),
           IF success THEN <<"s", "u", "c", "c", "e", "s", "s">>
           ELSE <<"f", "a", "i", "l", "u", "r", "e">> >>, ":")

\* TrafficRecord.from_metric: the six parts of metric.split(":") are
\* unpacked (ValueError unless they are six) and handed to the constructor
\* as they are; connected is the comparison with 'True'
FromMetric(str) ==
    LET parts == Split(str, ":")
    IN  IF Len(parts) # 6 THEN [exc |-> "ValueError", made |-> <<>>]
        ELSE [exc |-> "none",
              made |-> [source |-> PyStrOf(parts[1]),
                        destination |-> PyStrOf(parts[2]),
                        port |-> PyStrOf(parts[3]),
                        protocol |-> PyStrOf(parts[4]),
                        connected |-> PyBoolOf(parts[5] = <<"T", "r", "u", "e">>)]]

\* TrafficRecord.is_success: "success" in metric
IsSuccess(str) == Contains(str, <<"s", "u", "c", "c", "e", "s", "s">>)

\* the arguments the clients and their callers pass
ConvertArgs ==
    [source : {PyStrOf(<<"a">>), PyStrOf(<<"h", "1">>), PyStrOf(<<":", ":", "1">>)},
     destination : {PyStrOf(<<"b">>), PyStrOf(<<"h", "2">>)},
     port : {PyIntOf(80), PyIntOf(443), PyStrOf(<<"8", "0">>)},
     protocol : {PyStrOf(<<"T", "C", "P">>), PyStrOf(<<"U", "D", "P">>)},
     connected : {PyBoolOf(TRUE), PyBoolOf(FALSE)},
     success : BOOLEAN]

NoMetric == <<>>
NotConverted == [done |-> FALSE]

InitConvert ==
    /\ conv_args \in ConvertArgs
    /\ conv_metric = NoMetric
    /\ conv_ret = NotConverted

ConvertIdle ==
    /\ conv_args = <<>>
    /\ conv_metric = NoMetric
    /\ conv_ret = NotConverted

\* metric = TrafficRecord.to_metric(...)
ToMetricCall ==
    /\ conv_metric = NoMetric
    /\ conv_metric' = ToMetric(conv_args.source, conv_args.destination,
                               conv_args.port, conv_args.protocol,
                               conv_args.connected, conv_args.success)
    /\ UNCHANGED <<conv_args, conv_ret>>

\* success = TrafficRecord.is_success(metric);
\* record = TrafficRecord.from_metric(metric)
FromMetricCall ==
    /\ conv_metric # NoMetric
    /\ conv_ret = NotConverted
    /\ conv_ret' = [done |-> TRUE, is_success |-> IsSuccess(conv_metric),
                    exc |-> FromMetric(conv_metric).exc,
                    made |-> FromMetric(conv_metric).made]
    /\ UNCHANGED <<conv_args, conv_metric>>

NextConvert ==
    \/ ToMetricCall /\ UNCHANGED exceptConvert
    \/ FromMetricCall /\ UNCHANGED exceptConvert

\* ======================================================================
\* SpecStore: apps/traffic.py register_traffic, enable/disable of rows
\* ======================================================================
MaxRegisterCalls == 2   \* calls of register_traffic in a run

\* the (port, protocol) items of config['servers']
ServerItems == {<<80, "TCP">>, <<81, "TCP">>}

\* the (destination, port, protocol, allowed, enabled, request_count) items
\* of config['clients']
ClientItems ==
    {<<"10.0.0.2", 80, "TCP", TRUE, TRUE, 1>>,
     <<"10.0.0.2", 80, "TCP", TRUE, FALSE, 1>>,
     <<"10.0.0.2", 80, "TCP", FALSE, TRUE, 1>>}

\* one config of one endpoint, with up to two servers and two clients
TrafficConfigs ==
    [endpoint : {"10.0.0.1"},
     servers : UNION {[1..n -> ServerItems] : n \in 0..2},
     clients : UNION {[1..n -> ClientItems] : n \in 0..2}]

InitStore ==
    /\ traffic_configs \in TrafficConfigs
    /\ servers_rows = <<>>
    /\ clients_rows = <<>>
    /\ reg_log = [calls |-> 0, servers |-> 0, clients |-> 0]

StoreIdle ==
    /\ traffic_configs = <<>>
    /\ servers_rows = <<>>
    /\ clients_rows = <<>>
    /\ reg_log = [calls |-> 0, servers |-> 0, clients |-> 0]

\* TrafficServer(id, endpoint, item[0], item[1]): enabled defaults to True
NewTrafficServer(id, endpoint, item) ==
    [class |-> "TrafficServer", id |-> id, endpoint |-> endpoint,
     port |-> item[1], protocol |-> item[2], enabled |-> TRUE]

\* TrafficRule(id, endpoint, item[0], ..., item[5])
NewTrafficRule(id, endpoint, item) ==
    [class |-> "TrafficRule", id |-> id, source |-> endpoint,
     destination |-> item[1], port |-> item[2], protocol |-> item[3],
     allowed |-> item[4], enabled |-> item[5], request_count |-> item[6]]

\* x in a set or among the keys of a dict built from the objects of seq:
\* an object of the same hash that is equal to x
HashedHas(seq, x) ==
    \E i \in DOMAIN seq : Hash(seq[i]) = Hash(x) /\ Eq(seq[i], x)

\* list(set(new) - set(current)), in the order of new
SetDifference(new, current) ==
    LET absent(x) == ~HashedHas(current, x)
    IN  SelectSeq(new, absent)

\* list(OrderedDict.fromkeys(seq)): the first of the objects that are the
\* same key
RECURSIVE FromKeys(_, _)
FromKeys(seq, kept) ==
    IF seq = <<>> THEN kept
    ELSE FromKeys(Tail(seq),
                  IF HashedHas(kept, Head(seq)) THEN kept
                  ELSE Append(kept, Head(seq)))

\* the orders in which a list made from a set can hold its elements
Orders(seq) ==
    {[i \in DOMAIN seq |-> seq[p[i]]] :
        p \in {q \in [DOMAIN seq -> DOMAIN seq] :
                \A i, j \in DOMAIN seq : q[i] = q[j] => i = j}}

\* TrafficApp.register_traffic(traffic_configs): the ids are fresh
RegisterTraffic ==
    /\ reg_log.calls < MaxRegisterCalls
    /\ LET config == traffic_configs
           base == Len(servers_rows) + Len(clients_rows)
           servers == [i \in DOMAIN config.servers |->
                        NewTrafficServer(base + i, config.endpoint,
                                         config.servers[i])]
           clients == [i \in DOMAIN config.clients |->
                        NewTrafficRule(base + Len(servers) + i, config.endpoint,
                                       config.clients[i])]
           new_servers == SetDifference(FromKeys(servers, <<>>), servers_rows)
           new_clients == SetDifference(FromKeys(clients, <<>>), clients_rows)
       IN  /\ \E batch_s \in Orders(new_servers) :
                servers_rows' = servers_rows \o batch_s
           /\ \E batch_c \in Orders(new_clients) :
                clients_rows' = clients_rows \o batch_c
           /\ reg_log' = [calls |-> reg_log.calls + 1,
                          servers |-> Len(new_servers),
                          clients |-> Len(new_clients)]
    /\ UNCHANGED traffic_configs

\* the where clause of an update: the rows of the filter with enabled = en
Matching(table, filter, items, en) ==
    {i \in DOMAIN table : items[i] \in filter /\ table[i].enabled = en}

\* update ... values(enabled=to) on the matching rows; rowcount 0 raises
UpdateEnabled(table, filter, items, to) ==
    [i \in DOMAIN table |->
        IF i \in Matching(table, filter, items, ~to)
          THEN [table[i] EXCEPT !.enabled = to] ELSE table[i]]

\* the columns a server filter and a client filter constrain
ServerColumns(table) == [i \in DOMAIN table |-> <<table[i].port, table[i].protocol>>]
ClientColumns(table) ==
    [i \in DOMAIN table |->
        <<table[i].destination, table[i].port, table[i].protocol, table[i].allowed>>]

\* a filter is the set of column values that pass: all of them when the
\* arguments are None, one when they are given
ServerFilters == {ServerItems} \cup {{item} : item \in ServerItems}
ClientFilterItems == {<<item[1], item[2], item[3], item[4]>> : item \in ClientItems}
ClientFilters == {ClientFilterItems} \cup {{item} : item \in ClientFilterItems}

\* TrafficApp.disable_servers_rule / enable_servers_rule
SetServersEnabled(to) ==
    /\ \E filter \in ServerFilters :
        servers_rows' = UpdateEnabled(servers_rows, filter,
                                      ServerColumns(servers_rows), to)
    /\ UNCHANGED <<traffic_configs, clients_rows, reg_log>>

DisableServers == SetServersEnabled(FALSE)
EnableServers == SetServersEnabled(TRUE)

\* TrafficApp.disable_clients_rule / enable_clients_rule: the update of the
\* table; the controller call that follows it touches no table
SetClientsEnabled(to) ==
    /\ \E filter \in ClientFilters :
        clients_rows' = UpdateEnabled(clients_rows, filter,
                                      ClientColumns(clients_rows), to)
    /\ UNCHANGED <<traffic_configs, servers_rows, reg_log>>

DisableClients == SetClientsEnabled(FALSE)
EnableClients == SetClientsEnabled(TRUE)

NextStore ==
    \/ RegisterTraffic /\ UNCHANGED exceptStore
    \/ DisableServers /\ UNCHANGED exceptStore
    \/ EnableServers /\ UNCHANGED exceptStore
    \/ DisableClients /\ UNCHANGED exceptStore
    \/ EnableClients /\ UNCHANGED exceptStore

\* ======================================================================
\* SpecHost: servers/worker.py TrafficServerWorker.add_servers
\* ======================================================================
\* the servers the controller sends: two identity triples, each under two
\* ids and both enabled flags
HostServers ==
    {server \in TrafficServers :
        server.endpoint = "10.0.0.1" /\ server.protocol = "TCP"}

\* the lists add_servers is called with
HostServerLists == UNION {[1..n -> HostServers] : n \in 1..2}

NoAdd == [done |-> FALSE, op |-> "none", exc |-> "none"]

InitHost ==
    /\ hosted_servers = <<>>
    /\ running_servers = <<>>
    /\ add_log = NoAdd

HostIdle == InitHost

\* server in self._servers, the test reading the hash as a dict would
ListHasHashed(list, x) ==
    \E i \in DOMAIN list : Hash(list[i]) = Hash(x) /\ Eq(list[i], x)

\* server in self._servers: a list compares its elements with ==
ListHas(list, x) ==
    \E i \in DOMAIN list : Eq(list[i], x)

\* d[key] = value on an insertion-ordered dict: the value of the key that
\* has the hash of key and equals it is replaced, else the item is appended
DictSet(d, key, value) ==
    IF \E i \in DOMAIN d : Hash(d[i].key) = Hash(key) /\ Eq(d[i].key, key)
      THEN [i \in DOMAIN d |->
              IF Hash(d[i].key) = Hash(key) /\ Eq(d[i].key, key)
                THEN [key |-> d[i].key, value |-> value] ELSE d[i]]
      ELSE Append(d, [key |-> key, value |-> value])

\* d[key] and "key in d": the item whose key has the hash of key and equals it
DictHas(d, key) ==
    \E i \in DOMAIN d : Hash(d[i].key) = Hash(key) /\ Eq(d[i].key, key)

\* d[key], for a key the dict has
DictGet(d, key) ==
    d[CHOOSE i \in DOMAIN d : Hash(d[i].key) = Hash(key) /\ Eq(d[i].key, key)].value

\* del d[key], for a key the dict has
DictDel(d, key) ==
    SelectSeq(d, LAMBDA e : ~(Hash(e.key) = Hash(key) /\ Eq(e.key, key)))

\* list.remove(x): the first element that equals x goes
ListRemove(list, x) ==
    LET at == CHOOSE i \in DOMAIN list :
                  Eq(list[i], x) /\ \A j \in 1..(i - 1) : ~Eq(list[j], x)
    IN  SubSeq(list, 1, at - 1) \o SubSeq(list, at + 1, Len(list))

\* the loop of add_servers over servers[i..]; w = [servers, running, created,
\* fail, exc] where created[i] tells whether a listener was created for
\* servers[i] and fail is the position whose listener cannot be created
\* (0: none): server_instance.result() raises there, after the append to
\* self._servers, and the exception leaves add_servers with no listener
\* created for that position and the later ones
RECURSIVE AddServersFrom(_, _, _)
AddServersFrom(w, servers, i) ==
    IF i > Len(servers) THEN w
    ELSE LET server == servers[i]
         IN  IF ~ListHas(w.servers, server)
               THEN IF i = w.fail
                      THEN [w EXCEPT !.servers = Append(@, server),
                                     !.created = @ \o [j \in 1..(Len(servers) - i + 1) |-> FALSE],
                                     !.exc = "OSError"]
                      ELSE AddServersFrom(
                             [w EXCEPT
                                !.servers = Append(@, server),
                                !.running = DictSet(@, server,
                                              [kind |-> ListenerOf(server.protocol),
                                               serial |-> Len(w.running) + 1]),
                                !.created = Append(@, TRUE)],
                             servers, i + 1)
               ELSE AddServersFrom(
                      [w EXCEPT !.created = Append(@, FALSE)], servers, i + 1)

\* TrafficServerWorker.add_servers(servers), the listener of position fail
\* failing to come up (0: every listener comes up)
AddServersCall(servers, fail) ==
    LET w == AddServersFrom([servers |-> hosted_servers,
                             running |-> running_servers,
                             created |-> <<>>, fail |-> fail,
                             exc |-> "none"], servers, 1)
    IN  /\ hosted_servers' = w.servers
        /\ running_servers' = w.running
        /\ add_log' = [done |-> TRUE, op |-> "add_servers", exc |-> w.exc,
                       servers |-> servers,
                       before |-> hosted_servers,
                       running_before |-> running_servers,
                       created |-> w.created]

\* add_servers calls whose listeners all come up
AddServers ==
    \E servers \in HostServerLists : AddServersCall(servers, 0)

\* the servers of the runs with delete calls: two TCP servers, a server
\* equal to the first under another id and enabled flag, and a UDP server
ServeServers ==
    {server \in TrafficServers :
        /\ server.endpoint = "10.0.0.1"
        /\ \/ server.protocol = "TCP" /\ server.id = 1 /\ server.enabled
           \/ server.protocol = "TCP" /\ server.port = 80 /\ server.id = 2 /\ ~server.enabled
           \/ server.protocol = "UDP" /\ server.port = 80 /\ server.id = 1 /\ server.enabled}

ServeServerLists == UNION {[1..n -> ServeServers] : n \in 1..2}

\* add_servers calls, a listener failing to come up included
AddServersOrFail ==
    \E servers \in ServeServerLists, fail \in 0..2 : AddServersCall(servers, fail)

\* TrafficServerWorker._stop_server(server) on w = [servers, running, exc]:
\* self._running_servers[server] raises KeyError for a key the dict lacks;
\* server_instance.close() raises AttributeError on the pair a datagram
\* endpoint is stored as; else the listener is closed and its item deleted
StopServer(w, server) ==
    IF ~DictHas(w.running, server) THEN [w EXCEPT !.exc = "KeyError"]
    ELSE IF DictGet(w.running, server).kind = "tuple"
      THEN [w EXCEPT !.exc = "AttributeError"]
    ELSE [w EXCEPT !.running = DictDel(@, server)]

\* delete_servers, the servers from position i on: "if server in servers"
\* tests the argument list, so every server is stopped and then removed
RECURSIVE DeleteServersFrom(_, _, _)
DeleteServersFrom(w, servers, i) ==
    IF i > Len(servers) THEN w
    ELSE LET stopped == StopServer(w, servers[i])
         IN  IF stopped.exc # "none" THEN stopped
             ELSE IF ~ListHas(stopped.servers, servers[i])
               THEN [stopped EXCEPT !.exc = "ValueError"]
             ELSE DeleteServersFrom(
                    [stopped EXCEPT !.servers = ListRemove(@, servers[i])],
                    servers, i + 1)

\* delete_all_servers, from position i of self._servers on:
\* "for server in self._servers" reads the list the body removes from, so
\* after the removal at position i the loop goes on at position i + 1 of
\* the shortened list
RECURSIVE DeleteAllHostedFrom(_, _)
DeleteAllHostedFrom(w, i) ==
    IF i > Len(w.servers) THEN w
    ELSE LET stopped == StopServer(w, w.servers[i])
         IN  IF stopped.exc # "none" THEN stopped
             ELSE DeleteAllHostedFrom(
                    [stopped EXCEPT !.servers = ListRemove(@, w.servers[i])],
                    i + 1)

\* what a delete call leaves in the log: it was no add_servers call
DeleteLog(op, exc) ==
    [done |-> FALSE, op |-> op, exc |-> exc, before |-> hosted_servers]

\* TrafficServerWorker.delete_servers(servers)
DeleteServers ==
    \E servers \in ServeServerLists :
        LET w == DeleteServersFrom([servers |-> hosted_servers,
                                    running |-> running_servers,
                                    exc |-> "none"], servers, 1)
        IN  /\ hosted_servers' = w.servers
            /\ running_servers' = w.running
            /\ add_log' = DeleteLog("delete_servers", w.exc)

\* TrafficServerWorker.delete_all_servers()
DeleteAllHosted ==
    LET w == DeleteAllHostedFrom([servers |-> hosted_servers,
                                  running |-> running_servers,
                                  exc |-> "none"], 1)
    IN  /\ hosted_servers' = w.servers
        /\ running_servers' = w.running
        /\ add_log' = DeleteLog("delete_all_servers", w.exc)

\* TrafficServerWorker.has_server(server)
has_server(servers, server) == ListHas(servers, server)

\* TrafficServerWorker.get_server_count()
get_server_count(servers) == Len(servers)

NextHost ==
    \/ AddServers /\ UNCHANGED exceptHost

NextServe ==
    \/ AddServersOrFail /\ UNCHANGED exceptHost
    \/ DeleteServers /\ UNCHANGED exceptHost
    \/ DeleteAllHosted /\ UNCHANGED exceptHost

\* ======================================================================
\* SpecHeartbeat: clients/worker.py HeartBeatSender beside the dispatch
\*                thread and the RPC handler of one client worker
\* ======================================================================
InitHeartbeat == hb = [pc |-> "sleep", rule_count |-> 0]

HeartbeatIdle == InitHeartbeat

\* time.sleep(self._interval) returns
HbWake ==
    /\ hb.pc = "sleep"
    /\ hb' = [hb EXCEPT !.pc = "count"]

\* self._rules.get_rule_count(): with self._mutex: return len(self._rules_map)
HbGetRuleCount ==
    /\ hb.pc = "count"
    /\ mutex = "free"
    /\ hb' = [pc |-> "put", rule_count |-> Cardinality(DOMAIN rules_map)]

\* self._hb_queue.put((self._uid, "OK", rule_count, time.time()))
HbPut ==
    /\ hb.pc = "put"
    /\ hb' = [hb EXCEPT !.pc = "sleep"]

\* the steps of the three threads of the worker
HeartbeatThread ==
    (HbWake \/ HbGetRuleCount \/ HbPut) /\ UNCHANGED exceptHeartbeat

DispatchThread ==
    (GenWhile \/ GenYield \/ GenCheckStop \/ GenSubmit \/ GenSubmitRaised \/ GenResume \/ GenFinally)
    /\ UNCHANGED exceptWorker

HandlerThread ==
    (RpcAddRules \/ RpcAddStart) /\ UNCHANGED exceptWorker

NextHeartbeat ==
    \/ RpcCallAdd /\ UNCHANGED exceptWorker
    \/ RpcAddRules /\ UNCHANGED exceptWorker
    \/ RpcAddStart /\ UNCHANGED exceptWorker
    \/ GenWhile /\ UNCHANGED exceptWorker
    \/ GenYield /\ UNCHANGED exceptWorker
    \/ GenCheckStop /\ UNCHANGED exceptWorker
    \/ GenSubmit /\ UNCHANGED exceptWorker
    \/ GenSubmitRaised /\ UNCHANGED exceptWorker
    \/ GenResume /\ UNCHANGED exceptWorker
    \/ GenFinally /\ UNCHANGED exceptWorker
    \/ ProbeDone /\ UNCHANGED exceptWorker
    \/ HbWake /\ UNCHANGED exceptHeartbeat
    \/ HbGetRuleCount /\ UNCHANGED exceptHeartbeat
    \/ HbPut /\ UNCHANGED exceptHeartbeat

\* ======================================================================
\* SpecLink: RPCServer.run / _handle_request and RPCClient.do_rpc
\* (traffic/rpc_server.py)
\* ======================================================================

\* requests made in a run
MaxCalls == 3

\* the handler methods the controller calls on a client worker
HandlerMethods == {"add_clients", "delete_clients", "get_rule_count"}

\* what the handler method does with a request
HandlerResults == {"return", "raise"}

\* RPCServer.__init__: the listener exists, run() is about to accept;
\* no connection and no call has been made
InitLink ==
    /\ rpc_server = [pc |-> "accept", conn |-> 0]
    /\ rpc_conns = <<>>
    /\ rpc_calls = <<>>

LinkIdle == InitLink

\* the calls still inside do_rpc
PendingCalls == {i \in DOMAIN rpc_calls : rpc_calls[i].stage \in {"sent", "replied"}}

\* RPCClient.do_rpc, first half: a new connection to the listener and the
\* pickled (name, args, kwargs) sent on it; the caller then blocks in recv
DoRpcSend(method) ==
    /\ Len(rpc_calls) < MaxCalls
    /\ PendingCalls = {}
    /\ rpc_conns' = Append(rpc_conns, [open |-> TRUE, accepted |-> FALSE])
    /\ rpc_calls' = Append(rpc_calls, [conn |-> Len(rpc_conns) + 1, method |-> method,
                                       result |-> "none", reply |-> "none", stage |-> "sent"])
    /\ UNCHANGED rpc_server

\* a peer that kept its connection sends another request on it: the loop of
\* _handle_request reads requests from one connection until EOFError
SendOnOpenConnection(method) ==
    /\ Len(rpc_calls) < MaxCalls
    /\ PendingCalls = {}
    /\ \E c \in DOMAIN rpc_conns :
         /\ rpc_conns[c].open
         /\ rpc_calls' = Append(rpc_calls, [conn |-> c, method |-> method,
                                            result |-> "none", reply |-> "none", stage |-> "sent"])
    /\ UNCHANGED <<rpc_server, rpc_conns>>

\* RPCServer.run: self._socket.accept() returns the oldest connection not
\* yet accepted, open or already closed by its peer
ServerAccept ==
    /\ rpc_server.pc = "accept"
    /\ \E c \in DOMAIN rpc_conns :
         /\ ~rpc_conns[c].accepted
         /\ \A d \in DOMAIN rpc_conns : d < c => rpc_conns[d].accepted
         /\ rpc_server' = [pc |-> "recv", conn |-> c]
         /\ rpc_conns' = [rpc_conns EXCEPT ![c].accepted = TRUE]
    /\ UNCHANGED rpc_calls

\* one request in _handle_request without the inner try: the exception of
\* the method leaves run() and the process ends without a reply
ServeRequestNoCatch(result) ==
    IF result = "raise"
      THEN [reply |-> "none", pc |-> "dead"]
      ELSE [reply |-> "response", pc |-> "recv"]

\* one request in _handle_request: method(*args, **kwargs) and
\* request.send(pickle.dumps(response)), or in the except clause
\* request.send(pickle.dumps(ex)); the loop goes back to request.recv()
ServeRequest(result) ==
    IF result = "raise"
      THEN [reply |-> "exception", pc |-> "recv"]
      ELSE [reply |-> "response", pc |-> "recv"]

\* _handle_request, one iteration: recv a request of the served connection,
\* look the method up, call it, send the reply
ServerHandle ==
    /\ rpc_server.pc = "recv"
    /\ \E i \in DOMAIN rpc_calls, result \in HandlerResults :
         /\ rpc_calls[i].conn = rpc_server.conn
         /\ rpc_calls[i].stage = "sent"
         /\ LET served == ServeRequest(result)
            IN  /\ rpc_calls' = [rpc_calls EXCEPT ![i].result = result,
                                                 ![i].reply = served.reply,
                                                 ![i].stage = IF served.reply = "none" THEN "sent" ELSE "replied"]
                /\ rpc_server' = [rpc_server EXCEPT !.pc = served.pc]
    /\ UNCHANGED rpc_conns

\* _handle_request: request.recv() raises EOFError on a connection its peer
\* closed; the except clause passes and run() accepts the next connection
ServerEOF ==
    /\ rpc_server.pc = "recv"
    /\ ~rpc_conns[rpc_server.conn].open
    /\ \A i \in DOMAIN rpc_calls : rpc_calls[i].conn = rpc_server.conn => rpc_calls[i].stage # "sent"
    /\ rpc_server' = [pc |-> "accept", conn |-> 0]
    /\ UNCHANGED <<rpc_conns, rpc_calls>>

\* RPCClient.do_rpc, second half: pickle.loads(connection.recv()); an
\* Exception instance is raised, anything else returned
DoRpcRecv ==
    /\ \E i \in DOMAIN rpc_calls :
         /\ rpc_calls[i].stage = "replied"
         /\ rpc_calls' = [rpc_calls EXCEPT ![i].stage =
                             IF rpc_calls[i].reply = "exception" THEN "raised" ELSE "returned"]
    /\ UNCHANGED <<rpc_server, rpc_conns>>

\* the connection object of a finished do_rpc is collected, which closes it
CloseConnection ==
    /\ \E c \in DOMAIN rpc_conns :
         /\ rpc_conns[c].open
         /\ \A i \in DOMAIN rpc_calls : rpc_calls[i].conn = c => rpc_calls[i].stage \notin {"sent", "replied"}
         /\ rpc_conns' = [rpc_conns EXCEPT ![c].open = FALSE]
    /\ UNCHANGED <<rpc_server, rpc_calls>>

\* the server process
ServerProcess == (ServerAccept \/ ServerHandle \/ ServerEOF) /\ UNCHANGED exceptLink

\* the caller inside do_rpc and the collection of its connection
CallerProcess == (DoRpcRecv \/ CloseConnection) /\ UNCHANGED exceptLink

NextLink ==
    \/ (\E method \in HandlerMethods : DoRpcSend(method)) /\ UNCHANGED exceptLink
    \/ (\E method \in HandlerMethods : SendOnOpenConnection(method)) /\ UNCHANGED exceptLink
    \/ ServerAccept /\ UNCHANGED exceptLink
    \/ ServerHandle /\ UNCHANGED exceptLink
    \/ ServerEOF /\ UNCHANGED exceptLink
    \/ DoRpcRecv /\ UNCHANGED exceptLink
    \/ CloseConnection /\ UNCHANGED exceptLink

\* ======================================================================
\* SpecExecutor: BoundedThreadPoolExecutor (common/executor.py)
\* ======================================================================

\* the max_workers the executor is built with
ExecutorWorkers == 2

\* tasks submitted in a run
MaxTasks == 4

\* threads calling submit()
SubmitThreads == {1, 2}

\* how a task ends
TaskResults == {"returned", "raised"}

\* BoundedThreadPoolExecutor.__init__: BoundedSemaphore(max_workers), no
\* future yet, no thread inside submit
InitExecutor ==
    /\ semaphore = ExecutorWorkers
    /\ futures = <<>>
    /\ submitters = [t \in SubmitThreads |-> [pc |-> "idle", future |-> 0]]

ExecutorIdle == InitExecutor

\* futures neither returned nor raised
TasksInFlight == {f \in DOMAIN futures : futures[f].state \in {"pending", "running"}}

\* an acquire that takes no permit
SemaphoreAcquireFree(value) == value

\* BoundedSemaphore.acquire() on a positive value
SemaphoreAcquire(value) == value - 1

\* BoundedSemaphore.release()
SemaphoreRelease(value) == value + 1

\* _BoundedPoolExecutor.submit: self.acquire(), which blocks while the
\* semaphore is zero
SubmitAcquire(t) ==
    /\ submitters[t].pc = "idle"
    /\ Len(futures) + Cardinality({u \in SubmitThreads : submitters[u].pc = "acquired"}) < MaxTasks
    /\ semaphore > 0
    /\ semaphore' = SemaphoreAcquire(semaphore)
    /\ submitters' = [submitters EXCEPT ![t].pc = "acquired"]
    /\ UNCHANGED futures

\* _BoundedPoolExecutor.submit: super().submit(fn, ...) puts the work item
\* on the queue of the pool and returns its future
SubmitSchedule(t) ==
    /\ submitters[t].pc = "acquired"
    /\ futures' = Append(futures, [state |-> "pending", callback |-> FALSE])
    /\ submitters' = [submitters EXCEPT ![t] = [pc |-> "scheduled", future |-> Len(futures) + 1]]
    /\ UNCHANGED semaphore

\* _BoundedPoolExecutor.submit: future.add_done_callback(self.release); a
\* future already done runs the callback at once; then submit returns
SubmitAddCallback(t) ==
    /\ submitters[t].pc = "scheduled"
    /\ LET f == submitters[t].future
       IN  /\ futures' = [futures EXCEPT ![f].callback = TRUE]
           /\ semaphore' = IF futures[f].state \in TaskResults
                             THEN SemaphoreRelease(semaphore) ELSE semaphore
    /\ submitters' = [submitters EXCEPT ![t] = [pc |-> "idle", future |-> 0]]

\* a pool thread takes the oldest work item of the queue
TaskStart ==
    /\ \E f \in DOMAIN futures :
         /\ futures[f].state = "pending"
         /\ \A g \in DOMAIN futures : g < f => futures[g].state # "pending"
         /\ Cardinality({g \in DOMAIN futures : futures[g].state = "running"}) < ExecutorWorkers
         /\ futures' = [futures EXCEPT ![f].state = "running"]
    /\ UNCHANGED <<semaphore, submitters>>

\* the task returns or raises: set_result / set_exception mark the future
\* done and run its done callbacks, release among them if already added
TaskDone(result) ==
    /\ \E f \in DOMAIN futures :
         /\ futures[f].state = "running"
         /\ futures' = [futures EXCEPT ![f].state = result]
         /\ semaphore' = IF futures[f].callback
                           THEN SemaphoreRelease(semaphore) ELSE semaphore
    /\ UNCHANGED submitters

NextExecutor ==
    \/ (\E t \in SubmitThreads : SubmitAcquire(t)) /\ UNCHANGED exceptExecutor
    \/ (\E t \in SubmitThreads : SubmitSchedule(t)) /\ UNCHANGED exceptExecutor
    \/ (\E t \in SubmitThreads : SubmitAddCallback(t)) /\ UNCHANGED exceptExecutor
    \/ TaskStart /\ UNCHANGED exceptExecutor
    \/ (\E result \in TaskResults : TaskDone(result)) /\ UNCHANGED exceptExecutor

\* ======================================================================
\* SpecPing: TCPClient / UDPClient / HTTPClient, ping and _send_receive
\* (traffic/clients/clients.py)
\* ======================================================================

PingProtocols == {"TCP", "UDP", "HTTP"}

\* what one send/recv attempt on a socket does: it completes or it raises
SocketAnswers == {"ok", "error"}

\* what one HTTP attempt meets: the status the server answers with, or a
\* transport error
HttpAnswers == {"200", "204", "500", "error"}

AnswersOf(protocol) == IF protocol = "HTTP" THEN HttpAnswers ELSE SocketAnswers

\* a client built from a rule, ping() not yet called
InitPing ==
    /\ pinger \in [protocol : PingProtocols, request_count : 1..MaxRequestCount,
                   pc : {"start"}, i : {0}, sock : {"unbound"}]
    /\ requests_log = <<>>

PingIdle ==
    /\ pinger = [protocol |-> "TCP", request_count |-> 1, pc |-> "done", i |-> 0, sock |-> "unbound"]
    /\ requests_log = <<>>

\* TCPClient._send_receive and UDPClient._send_receive: send and recv; on an
\* exception sleep, send and recv once more; an exception of the second
\* try is raised
SocketSendReceive(first, second) ==
    IF first = "ok" THEN [attempts |-> 1, second |-> "none", raised |-> FALSE]
    ELSE [attempts |-> 2, second |-> second, raised |-> second # "ok"]

\* get_response(): _use_session returns response.status_code whatever it is;
\* _use_urllib returns result.code, and urlopen raises HTTPError for an
\* error status
GetResponse(session, answer) ==
    IF answer = "error" \/ (~session /\ answer = "500")
      THEN [raised |-> TRUE, status |-> "None"]
      ELSE [raised |-> FALSE, status |-> answer]

\* status.code on the int get_response returned
StatusCode(status) == "AttributeError"

\* HTTPClient._send_receive: a first status other than 200 raises, and the
\* except clause raises it again when status is set; with status still None
\* the request is made once more, and the retry compares status.code
HttpSendReceive(session, first, second) ==
    LET r1 == GetResponse(session, first)
        r2 == GetResponse(session, second)
    IN  IF ~r1.raised /\ r1.status = "200"
          THEN [attempts |-> 1, second |-> "none", raised |-> FALSE]
        ELSE IF ~r1.raised
          THEN [attempts |-> 1, second |-> "none", raised |-> TRUE]
        ELSE [attempts |-> 2, second |-> second,
              raised |-> r2.raised \/ StatusCode(r2.status) # "200"]

SendReceive(protocol, session, first, second) ==
    IF protocol = "HTTP" THEN HttpSendReceive(session, first, second)
    ELSE SocketSendReceive(first, second)

\* a record() call: one counter of the rule is incremented
Logged(first, sent, success) ==
    Append(requests_log, [first |-> first, second |-> sent.second,
                          attempts |-> sent.attempts, success |-> success])

NotSent == [attempts |-> 0, second |-> "none", raised |-> TRUE]

\* ping() up to its loop. TCP and HTTP go straight to the loop. UDPClient.ping
\* creates its socket first: when that raises, the except clause logs, and
\* `if sock` in the finally clause reads the unbound local, so ping raises
\* UnboundLocalError with nothing recorded
PingStart ==
    /\ pinger.pc = "start"
    /\ \E created \in BOOLEAN :
         pinger' = IF pinger.protocol # "UDP" THEN [pinger EXCEPT !.pc = "loop"]
                   ELSE IF created THEN [pinger EXCEPT !.pc = "loop", !.sock = "bound"]
                   ELSE [pinger EXCEPT !.pc = "raised"]
    /\ UNCHANGED requests_log

\* one iteration of the loop of ping(). TCPClient.ping creates and connects
\* a socket per request inside the try: when either raises, the request is
\* recorded as a failure; the finally clause then reads `sock`, which is
\* unbound when the first creation raised, and the UnboundLocalError ends
\* the loop in the outer except clause. Otherwise _send_receive runs and the
\* request is recorded by record() or by record(success=False)
PingIteration ==
    /\ pinger.pc = "loop"
    /\ pinger.i < pinger.request_count
    /\ \E created \in BOOLEAN, connected \in BOOLEAN,
          first \in AnswersOf(pinger.protocol), second \in AnswersOf(pinger.protocol) :
         LET sent == SendReceive(pinger.protocol, pinger.request_count > 1, first, second)
         IN  IF pinger.protocol = "TCP" /\ ~created
               THEN /\ requests_log' = Logged("none", NotSent, FALSE)
                    /\ pinger' = IF pinger.sock = "unbound"
                                   THEN [pinger EXCEPT !.pc = "done"]
                                   ELSE [pinger EXCEPT !.i = @ + 1]
             ELSE IF pinger.protocol = "TCP" /\ ~connected
               THEN /\ requests_log' = Logged("none", NotSent, FALSE)
                    /\ pinger' = [pinger EXCEPT !.i = @ + 1, !.sock = "bound"]
             ELSE /\ requests_log' = Logged(first, sent, ~sent.raised)
                  /\ pinger' = [pinger EXCEPT !.i = @ + 1,
                                   !.sock = IF pinger.protocol = "TCP" THEN "bound" ELSE @]

\* the loop is exhausted: ping() closes what it holds and returns
PingLoopEnd ==
    /\ pinger.pc = "loop"
    /\ pinger.i = pinger.request_count
    /\ pinger' = [pinger EXCEPT !.pc = "done"]
    /\ UNCHANGED requests_log

NextPing ==
    \/ PingStart /\ UNCHANGED exceptPing
    \/ PingIteration /\ UNCHANGED exceptPing
    \/ PingLoopEnd /\ UNCHANGED exceptPing

\* ======================================================================
\* SpecCounters: MetricsCache.counter and Counter.inc as TCPClient.record
\* calls them from the threads of the pool (common/metric_cache.py)
\* ======================================================================

\* record() calls one probe thread makes
MaxRecords == 2

\* pool threads running probes at the same time
ProbeThreads == {1, 2}

ThreadIdle == [pc |-> "idle", key |-> <<>>, held |-> 0, made |-> 0]

\* MetricsCache.__init__: no counter yet; no thread inside record()
InitCounters ==
    /\ cache_map = [k \in MetricKeys |-> 0]
    /\ counter_objs = <<>>
    /\ probe_threads = [t \in ProbeThreads |-> ThreadIdle]

CountersIdle ==
    /\ cache_map = <<>>
    /\ counter_objs = <<>>
    /\ probe_threads = <<>>

\* MetricsCache.counter: "key not in self._counters"
KeyMissing(key) == cache_map[key] = 0

\* TCPClient.record: the metric key is built and counter(metric) is entered;
\* counter() tests "if key not in self._counters"
CounterTest(t) ==
    /\ probe_threads[t].pc = "idle"
    /\ probe_threads[t].made < MaxRecords
    /\ \E key \in MetricKeys :
         probe_threads' = [probe_threads EXCEPT ![t].key = key,
                              ![t].pc = IF KeyMissing(key) THEN "store" ELSE "fetch"]
    /\ UNCHANGED <<cache_map, counter_objs>>

\* MetricsCache.counter: self._counters[key] = Counter()
CounterStore(t) ==
    /\ probe_threads[t].pc = "store"
    /\ counter_objs' = Append(counter_objs, 0)
    /\ cache_map' = [cache_map EXCEPT ![probe_threads[t].key] = Len(counter_objs) + 1]
    /\ probe_threads' = [probe_threads EXCEPT ![t].pc = "fetch"]

\* MetricsCache.counter: return self._counters[key]
CounterFetch(t) ==
    /\ probe_threads[t].pc = "fetch"
    /\ probe_threads' = [probe_threads EXCEPT ![t].pc = "inc",
                                              ![t].held = cache_map[probe_threads[t].key]]
    /\ UNCHANGED <<cache_map, counter_objs>>

\* TCPClient.record: counter.inc(), with self._lock: self._count += val
CounterIncHeld(t) ==
    /\ probe_threads[t].pc = "inc"
    /\ counter_objs' = [counter_objs EXCEPT ![probe_threads[t].held] = @ + 1]
    /\ probe_threads' = [probe_threads EXCEPT ![t].pc = "idle", ![t].held = 0,
                                              ![t].made = @ + 1]
    /\ UNCHANGED cache_map

NextCounters ==
    \/ (\E t \in ProbeThreads : CounterTest(t)) /\ UNCHANGED exceptCounters
    \/ (\E t \in ProbeThreads : CounterStore(t)) /\ UNCHANGED exceptCounters
    \/ (\E t \in ProbeThreads : CounterFetch(t)) /\ UNCHANGED exceptCounters
    \/ (\E t \in ProbeThreads : CounterIncHeld(t)) /\ UNCHANGED exceptCounters

\* ======================================================================
\* SpecDispatch: ExchangeManager.run, Exchange._recieve and Exchange._send
\* at the granularity of the dict iterations, beside the application
\* thread calling attach, detach and send (common/monit_queues.py)
\* ======================================================================

\* entries ever put into the subscribers dict in a run
MaxEntries == 2

\* Exchange.send calls of a run; message m is the m-th
MaxDispatchSends == 2

\* the clock runs from 0 to MaxDispatchTime seconds
MaxDispatchTime == 2

\* the entry array slot of a deleted key
DeletedEntry == [sub |-> "", live |-> FALSE, details |-> <<>>]

DispatchSubscribers == {"sql", "log"}

ManagerSelect == [pc |-> "select", message |-> 0, pos |-> 0, used |-> 0, current_time |-> 0]

\* the exchange exists, nothing is attached, the manager thread polls
InitDispatch ==
    /\ wire = [clock |-> 0, queue |-> <<>>, nsent |-> 0]
    /\ entries = <<>>
    /\ manager = ManagerSelect
    /\ delivered = [sub \in DispatchSubscribers |-> <<>>]
    /\ received_attached = [sub \in DispatchSubscribers |-> <<>>]

DispatchIdle ==
    /\ wire = [clock |-> 0, queue |-> <<>>, nsent |-> 0]
    /\ entries = <<>>
    /\ manager = [pc |-> "none"]
    /\ delivered = <<>>
    /\ received_attached = <<>>

\* the live entries of the dict: len(self._subscribers) counts them
LiveEntries == {i \in DOMAIN entries : entries[i].live}

IsAttached(sub) == \E i \in LiveEntries : entries[i].sub = sub

\* Exchange.send(item) from the application
DispatchSend ==
    /\ wire.nsent < MaxDispatchSends
    /\ wire' = [wire EXCEPT !.nsent = @ + 1, !.queue = Append(@, wire.nsent + 1)]
    /\ UNCHANGED <<entries, manager, delivered, received_attached>>

\* Exchange.attach(task, buffer_interval): the defaultdict makes the entry
\* of the task and the interval and the fire time are set (the runs attach
\* a task that is not attached). A task attached while _recieve is handing
\* a message out is attached while that message is received
DispatchAttach ==
    /\ \E sub \in DispatchSubscribers :
         /\ ~IsAttached(sub)
         /\ Len(entries) < MaxEntries
         /\ entries' = Append(entries, [sub |-> sub, live |-> TRUE,
                                        details |-> Attach(wire.clock, 1)])
    /\ received_attached' =
          IF manager.pc = "append"
            THEN [sub \in DispatchSubscribers |->
                    IF IsAttached(sub)' /\ ~IsAttached(sub)
                      THEN Append(received_attached[sub], manager.message)
                      ELSE received_attached[sub]]
            ELSE received_attached
    /\ UNCHANGED <<wire, manager, delivered>>

\* Exchange.detach(task): del self._subscribers[task]
DispatchDetach ==
    /\ \E i \in LiveEntries :
         entries' = [entries EXCEPT ![i] = DeletedEntry]
    /\ UNCHANGED <<wire, manager, delivered, received_attached>>

\* a second passes
DispatchTick ==
    /\ wire.clock < MaxDispatchTime
    /\ wire' = [wire EXCEPT !.clock = @ + 1]
    /\ UNCHANGED <<entries, manager, delivered, received_attached>>

\* run: select() reports the exchange readable; _recieve: recv(1) and
\* message = self._queue.get(); the iteration over the subscribers begins
ManagerGet ==
    /\ manager.pc = "select"
    /\ wire.queue # <<>>
    /\ wire' = [wire EXCEPT !.queue = Tail(@)]
    /\ manager' = [manager EXCEPT !.pc = "append", !.message = Head(wire.queue),
                                  !.pos = 1, !.used = Cardinality(LiveEntries)]
    /\ received_attached' = [sub \in DispatchSubscribers |->
                             IF IsAttached(sub)
                               THEN Append(received_attached[sub], Head(wire.queue))
                               ELSE received_attached[sub]]
    /\ UNCHANGED <<entries, delivered>>

\* the next entry a dict iterator started with `used` live entries gives
\* from position pos: RuntimeError when the dict has changed size since,
\* the end when no live entry is left, else the position of the entry
IterNext(pos, used) ==
    IF Cardinality(LiveEntries) # used THEN [at |-> 0, exc |-> "RuntimeError"]
    ELSE IF \A i \in LiveEntries : i < pos THEN [at |-> 0, exc |-> "none"]
    ELSE [at |-> CHOOSE i \in LiveEntries : i >= pos /\ \A j \in LiveEntries : j >= pos => i <= j,
          exc |-> "none"]

\* an exception inside the while loop of run() is caught by the try around
\* the loop: it is printed and run() returns
ManagerRaise == [manager EXCEPT !.pc = "dead"]

\* _recieve: one step of "for subscriber, details in
\* self._subscribers.items(): details['queue'].append(message)"; after the
\* last entry self._send() reads the clock and starts its own iteration
ManagerAppend ==
    /\ manager.pc = "append"
    /\ LET nxt == IterNext(manager.pos, manager.used)
       IN  IF nxt.exc # "none"
             THEN manager' = ManagerRaise /\ UNCHANGED entries
           ELSE IF nxt.at = 0
             THEN /\ manager' = [manager EXCEPT !.pc = "send", !.pos = 1,
                                    !.used = Cardinality(LiveEntries),
                                    !.current_time = wire.clock]
                  /\ UNCHANGED entries
           ELSE /\ entries' = [entries EXCEPT ![nxt.at].details.queue = Append(@, manager.message)]
                /\ manager' = [manager EXCEPT !.pos = nxt.at + 1]
    /\ UNCHANGED <<wire, delivered, received_attached>>

\* the queue kept after its batch was handed over
QueueKept(messages) == messages

\* _send: details['queue'] = list()
QueueAfterFire(messages) == <<>>

\* _send: one step of its loop: a subscriber whose next_fire_time has come
\* gets its queue as one batch, in a thread running handle, a new fire time
\* and a new queue; after the last entry run() polls again
ManagerSend ==
    /\ manager.pc = "send"
    /\ LET nxt == IterNext(manager.pos, manager.used)
       IN  IF nxt.exc # "none"
             THEN manager' = ManagerRaise /\ UNCHANGED <<entries, delivered>>
           ELSE IF nxt.at = 0
             THEN manager' = ManagerSelect /\ UNCHANGED <<entries, delivered>>
           ELSE LET details == entries[nxt.at].details
                IN  /\ manager' = [manager EXCEPT !.pos = nxt.at + 1]
                    /\ IF Fires(details, manager.current_time)
                         THEN /\ entries' = [entries EXCEPT ![nxt.at].details =
                                    [details EXCEPT
                                       !.next_fire_time = manager.current_time + details.buffer_interval,
                                       !.queue = QueueAfterFire(details.queue)]]
                              /\ delivered' = [delivered EXCEPT ![entries[nxt.at].sub] =
                                                  Append(@, details.queue)]
                         ELSE UNCHANGED <<entries, delivered>>
    /\ UNCHANGED <<wire, received_attached>>

NextDispatch ==
    \/ DispatchSend /\ UNCHANGED exceptDispatch
    \/ DispatchAttach /\ UNCHANGED exceptDispatch
    \/ DispatchDetach /\ UNCHANGED exceptDispatch
    \/ DispatchTick /\ UNCHANGED exceptDispatch
    \/ ManagerGet /\ UNCHANGED exceptDispatch
    \/ ManagerAppend /\ UNCHANGED exceptDispatch
    \/ ManagerSend /\ UNCHANGED exceptDispatch

\* ======================================================================
\* Specifications
\* ======================================================================
\* one client probing, the worker and the application idle
InitSpecProbe == InitProbe /\ WorkerIdle /\ AppIdle /\ RaceIdle /\ MetricsIdle /\ ExchangeIdle /\ RecorderIdle /\ EqualityIdle /\ ConvertIdle /\ StoreIdle /\ HostIdle /\ HeartbeatIdle /\ LinkIdle /\ ExecutorIdle /\ PingIdle /\ CountersIdle /\ DispatchIdle
SpecProbe == InitSpecProbe /\ [][NextProbe]_vars

\* one client worker process, driven through its RPC interface
InitSpecWorker == ProbeIdle /\ InitWorker /\ AppIdle /\ RaceIdle /\ MetricsIdle /\ ExchangeIdle /\ RecorderIdle /\ EqualityIdle /\ ConvertIdle /\ StoreIdle /\ HostIdle /\ HeartbeatIdle /\ LinkIdle /\ ExecutorIdle /\ PingIdle /\ CountersIdle /\ DispatchIdle
SpecWorker == InitSpecWorker /\ [][NextWorker]_vars

\* the application, its controller and the workers the controller creates
InitSpecApp == ProbeIdle /\ WorkerIdle /\ InitApp /\ RaceIdle /\ MetricsIdle /\ ExchangeIdle /\ RecorderIdle /\ EqualityIdle /\ ConvertIdle /\ StoreIdle /\ HostIdle /\ HeartbeatIdle /\ LinkIdle /\ ExecutorIdle /\ PingIdle /\ CountersIdle /\ DispatchIdle
SpecApp == InitSpecApp /\ [][NextApp]_vars

\* a metrics cache with its probe threads and its reporter
InitSpecMetrics == ProbeIdle /\ WorkerIdle /\ AppIdle /\ RaceIdle /\ InitMetrics /\ ExchangeIdle /\ RecorderIdle /\ EqualityIdle /\ ConvertIdle /\ StoreIdle /\ HostIdle /\ HeartbeatIdle /\ LinkIdle /\ ExecutorIdle /\ PingIdle /\ CountersIdle /\ DispatchIdle
SpecMetrics == InitSpecMetrics /\ [][NextMetrics]_vars

\* an exchange with one subscriber.  The manager thread polls for as long
\* as it is not stopped and the clock advances; nothing obliges the
\* application to send.
InitSpecExchange == ProbeIdle /\ WorkerIdle /\ AppIdle /\ RaceIdle /\ MetricsIdle /\ InitExchange /\ RecorderIdle /\ EqualityIdle /\ ConvertIdle /\ StoreIdle /\ HostIdle /\ HeartbeatIdle /\ LinkIdle /\ ExecutorIdle /\ PingIdle /\ CountersIdle /\ DispatchIdle
SpecExchange == InitSpecExchange /\ [][NextExchange]_vars /\ WF_vars(ExchangeRecieve /\ UNCHANGED exceptExchange) /\ WF_vars(Tick /\ UNCHANGED exceptExchange)

\* one batch handled by the SQL recorder
InitSpecRecorder == ProbeIdle /\ WorkerIdle /\ AppIdle /\ RaceIdle /\ MetricsIdle /\ ExchangeIdle /\ InitRecorder /\ EqualityIdle /\ ConvertIdle /\ StoreIdle /\ HostIdle /\ HeartbeatIdle /\ LinkIdle /\ ExecutorIdle /\ PingIdle /\ CountersIdle /\ DispatchIdle
SpecRecorder == InitSpecRecorder /\ [][NextRecorder]_vars

\* two rule objects compared and hashed
InitSpecEquality == ProbeIdle /\ WorkerIdle /\ AppIdle /\ RaceIdle /\ MetricsIdle /\ ExchangeIdle /\ RecorderIdle /\ InitEquality /\ ConvertIdle /\ StoreIdle /\ HostIdle /\ HeartbeatIdle /\ LinkIdle /\ ExecutorIdle /\ PingIdle /\ CountersIdle /\ DispatchIdle
SpecEquality == InitSpecEquality /\ [][NextEquality]_vars

\* one metric key built and parsed back
InitSpecConvert == ProbeIdle /\ WorkerIdle /\ AppIdle /\ RaceIdle /\ MetricsIdle /\ ExchangeIdle /\ RecorderIdle /\ EqualityIdle /\ InitConvert /\ StoreIdle /\ HostIdle /\ HeartbeatIdle /\ LinkIdle /\ ExecutorIdle /\ PingIdle /\ CountersIdle /\ DispatchIdle
SpecConvert == InitSpecConvert /\ [][NextConvert]_vars

\* one declaration registered repeatedly, rows enabled and disabled between
InitSpecStore == ProbeIdle /\ WorkerIdle /\ AppIdle /\ RaceIdle /\ MetricsIdle /\ ExchangeIdle /\ RecorderIdle /\ EqualityIdle /\ ConvertIdle /\ InitStore /\ HostIdle /\ HeartbeatIdle /\ LinkIdle /\ ExecutorIdle /\ PingIdle /\ CountersIdle /\ DispatchIdle
SpecStore == InitSpecStore /\ [][NextStore]_vars

\* one server worker receiving add_servers calls
InitSpecHost == ProbeIdle /\ WorkerIdle /\ AppIdle /\ RaceIdle /\ MetricsIdle /\ ExchangeIdle /\ RecorderIdle /\ EqualityIdle /\ ConvertIdle /\ StoreIdle /\ InitHost /\ HeartbeatIdle /\ LinkIdle /\ ExecutorIdle /\ PingIdle /\ CountersIdle /\ DispatchIdle
SpecHost == InitSpecHost /\ [][NextHost]_vars

\* a client worker with its heartbeat thread: every thread that can take a
\* step keeps running, and every probe of the pool ends; threading.Lock
\* gives a waiting thread no turn
InitSpecHeartbeat == ProbeIdle /\ InitWorker /\ AppIdle /\ RaceIdle /\ MetricsIdle /\ ExchangeIdle /\ RecorderIdle /\ EqualityIdle /\ ConvertIdle /\ StoreIdle /\ HostIdle /\ InitHeartbeat /\ LinkIdle /\ ExecutorIdle /\ PingIdle /\ CountersIdle /\ DispatchIdle
SpecHeartbeat == InitSpecHeartbeat /\ [][NextHeartbeat]_vars /\ WF_vars(HeartbeatThread) /\ WF_vars(DispatchThread) /\ WF_vars(HandlerThread) /\ WF_vars(ProbeDone /\ UNCHANGED exceptWorker)

\* an RPC server process and its callers; the server process and a caller
\* blocked in recv are scheduled by the operating system, and a finished
\* call's connection is closed when it is collected
InitSpecLink == ProbeIdle /\ WorkerIdle /\ AppIdle /\ RaceIdle /\ MetricsIdle /\ ExchangeIdle /\ RecorderIdle /\ EqualityIdle /\ ConvertIdle /\ StoreIdle /\ HostIdle /\ HeartbeatIdle /\ InitLink /\ ExecutorIdle /\ PingIdle /\ CountersIdle /\ DispatchIdle
SpecLink == InitSpecLink /\ [][NextLink]_vars /\ WF_vars(ServerProcess) /\ WF_vars(CallerProcess)

\* a bounded executor, the threads submitting to it and its pool threads
InitSpecExecutor == ProbeIdle /\ WorkerIdle /\ AppIdle /\ RaceIdle /\ MetricsIdle /\ ExchangeIdle /\ RecorderIdle /\ EqualityIdle /\ ConvertIdle /\ StoreIdle /\ HostIdle /\ HeartbeatIdle /\ LinkIdle /\ InitExecutor /\ PingIdle /\ CountersIdle /\ DispatchIdle
SpecExecutor == InitSpecExecutor /\ [][NextExecutor]_vars

\* one ping() of a protocol client against every course of its attempts
InitSpecPing == ProbeIdle /\ WorkerIdle /\ AppIdle /\ RaceIdle /\ MetricsIdle /\ ExchangeIdle /\ RecorderIdle /\ EqualityIdle /\ ConvertIdle /\ StoreIdle /\ HostIdle /\ HeartbeatIdle /\ LinkIdle /\ ExecutorIdle /\ InitPing /\ CountersIdle /\ DispatchIdle
SpecPing == InitSpecPing /\ [][NextPing]_vars

\* one server worker serving add and delete calls, listeners failing included
InitSpecServe == ProbeIdle /\ WorkerIdle /\ AppIdle /\ RaceIdle /\ MetricsIdle /\ ExchangeIdle /\ RecorderIdle /\ EqualityIdle /\ ConvertIdle /\ StoreIdle /\ InitHost /\ HeartbeatIdle /\ LinkIdle /\ ExecutorIdle /\ PingIdle /\ CountersIdle /\ DispatchIdle
SpecServe == InitSpecServe /\ [][NextServe]_vars

\* two probe threads recording into one MetricsCache; the interpreter may
\* switch threads between any two steps of counter()
InitSpecCounters == ProbeIdle /\ WorkerIdle /\ AppIdle /\ RaceIdle /\ MetricsIdle /\ ExchangeIdle /\ RecorderIdle /\ EqualityIdle /\ ConvertIdle /\ StoreIdle /\ HostIdle /\ HeartbeatIdle /\ LinkIdle /\ ExecutorIdle /\ PingIdle /\ InitCounters /\ DispatchIdle
SpecCounters == InitSpecCounters /\ [][NextCounters]_vars

\* the manager thread of an exchange beside the application thread
InitSpecDispatch == ProbeIdle /\ WorkerIdle /\ AppIdle /\ RaceIdle /\ MetricsIdle /\ ExchangeIdle /\ RecorderIdle /\ EqualityIdle /\ ConvertIdle /\ StoreIdle /\ HostIdle /\ HeartbeatIdle /\ LinkIdle /\ ExecutorIdle /\ PingIdle /\ CountersIdle /\ InitDispatch
SpecDispatch == InitSpecDispatch /\ [][NextDispatch]_vars

\* one client worker process whose dispatch thread, a daemon thread of the
\* process, keeps being scheduled and whose probes all end
InitSpecWorkerFair == ProbeIdle /\ InitWorker /\ AppIdle /\ RaceIdle /\ MetricsIdle /\ ExchangeIdle /\ RecorderIdle /\ EqualityIdle /\ ConvertIdle /\ StoreIdle /\ HostIdle /\ HeartbeatIdle /\ LinkIdle /\ ExecutorIdle /\ PingIdle /\ CountersIdle /\ DispatchIdle
SpecWorkerFair == InitSpecWorkerFair /\ [][NextWorker]_vars /\ WF_vars(DispatchTask) /\ WF_vars(ProbeDone /\ UNCHANGED exceptWorker)

\* the application with client rules and server rules side by side
InitSpecScope == ProbeIdle /\ WorkerIdle /\ InitApp /\ RaceIdle /\ MetricsIdle /\ ExchangeIdle /\ RecorderIdle /\ EqualityIdle /\ ConvertIdle /\ StoreIdle /\ HostIdle /\ HeartbeatIdle /\ LinkIdle /\ ExecutorIdle /\ PingIdle /\ CountersIdle /\ DispatchIdle
SpecScope == InitSpecScope /\ [][NextScope]_vars

\* one client worker process serving two concurrent RPC clients
InitSpecRace == ProbeIdle /\ InitWorker /\ AppIdle /\ InitRace /\ MetricsIdle /\ ExchangeIdle /\ RecorderIdle /\ EqualityIdle /\ ConvertIdle /\ StoreIdle /\ HostIdle /\ HeartbeatIdle /\ LinkIdle /\ ExecutorIdle /\ PingIdle /\ CountersIdle /\ DispatchIdle
SpecRace == InitSpecRace /\ [][NextRace]_vars

\* ======================================================================
\* Claims
\* ======================================================================

\* The dispatch thread has a rule in hand that the generator just yielded
Yielded == gen.pc \in {"body", "submit", "resume", "close"}

\* C1 (as a finite-run property): a dispatch task that add_clients(rules)
\* started for a non-empty rule list does not end before it has submitted
\* a probe to the pool, unless a delete_clients or delete_all_clients call
\* arrived after that add_clients.  In particular an add_clients issued
\* after a delete_all_clients gets its probes submitted.
C1_StartedTaskSubmitsProbes ==
    (hist.task_started /\ ~hist.task_deleted /\ gen.pc = "none")
        => hist.task_probed

\* C9: while the collection is not mutated, the i-th value the round-robin
\* generator yields is the ((i-1) mod N + 1)-th rule of the N distinct
\* rules the collection held at the first yield: every round has the same
\* cyclic order, so the first N*k yields contain each rule exactly k times.
C9_RoundRobinFair ==
    (Yielded /\ hist.rr_base # <<>>) =>
        /\ gen.item = hist.rr_base[hist.rr_idx]
        /\ Len(hist.rr_base) = Cardinality(DOMAIN rules_map)
        /\ \A i, j \in DOMAIN hist.rr_base :
              i # j => hist.rr_base[i] # hist.rr_base[j]
        /\ \A i \in DOMAIN hist.rr_base : hist.rr_base[i] \in DOMAIN rules_map

\* C9 witness: with two or more rules, the second yield of a later round
C9_SecondRoundReached ==
    /\ gen.pc = "body"
    /\ Len(hist.rr_base) >= 2
    /\ hist.rr_wrapped
    /\ hist.rr_idx = 2

\* C10: after delete_rule(r) on a collection that contained a rule equal
\* to r, r is not contained, get_rule_count() is one less than before and
\* the round-robin generator does not yield r (until r is added again).
C10_DeleteRuleRemoves ==
    (hist.last_delete.active /\ hist.last_delete.was_present) =>
        /\ hist.last_delete.rule \notin DOMAIN rules_map
        /\ Cardinality(DOMAIN rules_map) = hist.last_delete.count_before - 1
        /\ \A i \in DOMAIN rules : ~RuleEq(rules[i], hist.last_delete.rule)
        /\ Yielded => ~RuleEq(gen.item, hist.last_delete.rule)


\* ---- claims on SpecProbe

\* C8: whatever connected, allowed and the raw transport outcome S are, the
\* recorded success flag is (S = false) for an unconnected pair and
\* (S = allowed) for a connected one, and the counter that was incremented
\* carries the "success" suffix exactly when the flag is true.
C8_OutcomeClassification ==
    last_record.made =>
        /\ (~client.connected => (last_record.flag <=> (last_record.raw = FALSE)))
        /\ (client.connected =>
                (last_record.flag <=> (last_record.raw = client.action)))
        /\ (last_record.metric[3] = "success" <=> last_record.flag)
        /\ last_record.metric[3] \in {"success", "failure"}
        /\ CounterCount(counters, last_record.metric) >= 1

\* C8 witness: a connected pair whose rule expects the traffic to be denied
\* had a request fail, and it was counted as a success
C8_DeniedFailureCountsAsSuccess ==
    /\ last_record.made
    /\ client.connected /\ ~client.action /\ ~last_record.raw
    /\ last_record.flag
    /\ CounterCount(counters, <<"src:dst:port:TCP", "True", "success">>) >= 1

\* ---- claims on SpecApp

LiveWorkers(type) ==
    {u \in DOMAIN workers : workers[u].type = type /\ workers[u].alive}

HeldIds(u) == {workers[u].held[i].id : i \in DOMAIN workers[u].held}

\* C2: no worker was ever handed (to probe for, or to listen for) a rule
\* whose enabled flag was false when it was handed over.
C2_DisabledRuleNeverHanded ==
    \A u \in DOMAIN workers :
        \A i \in DOMAIN workers[u].held : workers[u].held[i].enabled

\* C2 witness: start_clients ran over a table that has a disabled row; a
\* worker holds a rule and no worker holds the disabled one
C2_StartSkippedDisabledRow ==
    /\ last_call.op = "start_clients"
    /\ \E u \in LiveWorkers("client") : workers[u].held # <<>>
    /\ \E k \in DOMAIN clients_table :
        /\ ~clients_table[k]
        /\ \A u \in DOMAIN workers : k \notin HeldIds(u)

\* C3: once disable_clients_rule has been called for rules (the call that
\* stops rules fetched with enabled = False), no live client worker holds
\* any of them, so no further probe of them is dispatched.
C3_DisabledRuleLeavesWorker ==
    (/\ last_call.op = "stop_clients"
     /\ \E i \in DOMAIN last_call.rules : ~last_call.rules[i].enabled) =>
        \A i \in DOMAIN last_call.rules :
            \A u \in LiveWorkers("client") : last_call.rules[i].id \notin HeldIds(u)

C5_StartThenStopUnregisters ==
    [][(/\ last_call.op = "start_clients"
        /\ last_call.rules # <<>>
        /\ last_call'.op = "stop_clients"
        /\ last_call'.rules = last_call.rules) =>
            \A i \in DOMAIN last_call'.rules :
                /\ ~CacheHas(rules_registry', Key("client", last_call'.rules[i].id))
                /\ \A u \in DOMAIN workers' :
                    (workers'[u].type = "client" /\ workers'[u].alive) =>
                        \A j \in DOMAIN workers'[u].held :
                            workers'[u].held[j].id # last_call'.rules[i].id]_vars

\* the live client workers in the order they were created
ClientWorkerSeq ==
    SelectSeq([u \in DOMAIN workers |-> u], LAMBDA u : u \in LiveWorkers("client"))

RECURSIVE ConcatHeld(_)
ConcatHeld(us) ==
    IF us = <<>> THEN <<>> ELSE workers[Head(us)].held \o ConcatHeld(Tail(us))

\* C6: start_clients with n >= W distinct rules on a controller without
\* client workers creates exactly W workers; taken in creation order their
\* rule lists are consecutive pieces of the input of at most ceil(n/W)
\* rules, and their rule counts add up to n.
C6_EvenContiguousSharding ==
    (/\ last_call.op = "start_clients"
     /\ last_call.workers_before = 0
     /\ Len(last_call.rules) >= CLIENT_WORKER_COUNT) =>
        LET n == Len(last_call.rules)
        IN  /\ Len(ClientWorkerSeq) = CLIENT_WORKER_COUNT
            /\ Len(GetAllKeys(workers_registry, "client")) = CLIENT_WORKER_COUNT
            /\ ConcatHeld(ClientWorkerSeq) = last_call.rules
            /\ \A u \in LiveWorkers("client") :
                /\ Len(workers[u].held) >= 1
                /\ Len(workers[u].held) * CLIENT_WORKER_COUNT
                        < n + CLIENT_WORKER_COUNT

\* C6 witness: three rules were started on two workers, from no worker
C6_ThreeRulesTwoWorkers ==
    /\ last_call.op = "start_clients"
    /\ last_call.workers_before = 0
    /\ last_call.exc = "none"
    /\ CLIENT_WORKER_COUNT = 2
    /\ Len(last_call.rules) = 3
    /\ Len(ClientWorkerSeq) = 2

\* C7: after start_clients or start_servers has returned, every rule of the
\* input is registered and held by the worker the registry maps it to,
\* however many workers of the type there were before the call.
C7_NoRuleLeftUnassigned ==
    (last_call.op \in {"start_clients", "start_servers"}
        /\ last_call.exc = "none") =>
        \A i \in DOMAIN last_call.rules :
            LET key == Key(last_call.type, last_call.rules[i].id)
            IN  /\ CacheHas(rules_registry, key)
                /\ last_call.rules[i].id \in HeldIds(CacheGet(rules_registry, key))


\* ---- further claims on SpecWorker

\* C11: delete_rule(r) on a collection that has no rule equal to r raises
\* (KeyError), the exception is what the RPC sends back to the caller, and
\* the deque and the map are left exactly as they were.
C11_DeleteAbsentSignalsNotFound ==
    [][(/\ rpc.call = "delete_clients" /\ rpc.pc = "delete"
        /\ rpc.args # <<>>
        /\ rpc' # rpc
        /\ \A i \in DOMAIN rules : ~RuleEq(rules[i], Head(rpc.args))
        /\ Head(rpc.args) \notin DOMAIN rules_map) =>
            /\ rules' = rules
            /\ rules_map' = rules_map
            /\ rpc'.call = "idle"
            /\ rpc'.result = "KeyError"]_vars

\* C11 witness: a delete of an absent rule was answered with KeyError by a
\* worker whose collection holds another rule
C11_AbsentRuleRefused ==
    /\ hist.last_delete.active
    /\ ~hist.last_delete.was_present
    /\ hist.last_delete.exc = "KeyError"
    /\ rpc.result = "KeyError"
    /\ rules # <<>>
    /\ Cardinality(DOMAIN rules_map) = hist.last_delete.count_before


\* C13: while the generator is suspended at its yield (the dispatch thread
\* is working on the yielded rule), a mutation of the collection that the
\* RPC thread is about to make can go ahead: the mutex it needs is free.
C13_MutationsDoNotWaitForConsumer ==
    (/\ gen.pc \in {"body", "submit", "resume"}
     /\ \/ rpc.pc \in {"add_rules", "clear"}
        \/ rpc.pc = "delete" /\ rpc.args # <<>>) =>
        mutex = "free"

\* ---- claims on SpecRace

\* C12: once add_clients(R) and delete_clients(R), issued concurrently, have
\* both been answered, get_rule_count() is 0 or |R| and the deque holds none
\* or all of the rules of R, also when the delete stopped at an exception.
C12_AllOrNothing ==
    (race.R # <<>> /\ race.pending = {} /\ rpc.call = "idle") =>
        /\ Cardinality(DOMAIN rules_map) \in {0, Len(race.R)}
        /\ \/ \A i \in DOMAIN race.R :
                \E j \in DOMAIN rules : RuleEq(rules[j], race.R[i])
           \/ \A i \in DOMAIN race.R :
                \A j \in DOMAIN rules : ~RuleEq(rules[j], race.R[i])

\* C12 witness: both calls of a two-rule list were answered, the delete
\* (served last) with an exception
C12_DeleteFailedPartWay ==
    /\ Len(race.R) = 2
    /\ race.pending = {} /\ rpc.call = "idle"
    /\ rpc.result \notin {"ok", "none"}
    /\ Cardinality(DOMAIN rules_map) = 2


\* ---- claims on SpecMetrics

\* the values the reporter took from the counters and has not sent yet
InFlight(k) ==
    IF k \in DOMAIN reporter.count_dict THEN reporter.count_dict[k] ELSE 0

InBatch(sub, m) ==
    \E b \in DOMAIN handled[sub] :
        \E i \in DOMAIN handled[sub][b] : handled[sub][b][i] = m

Queued(sub, m) ==
    \E i \in DOMAIN subs[sub].queue : subs[sub].queue[i] = m

\* C15: a message that waits in the subscriber's buffer when the buffer
\* interval has elapsed is eventually given to the subscriber's handle,
\* whether or not another message is sent afterwards.
C15_SentIsEventuallyHandled ==
    \A m \in 1..MaxSends :
        [](("sql" \in DOMAIN subs /\ Queued("sql", m)
                /\ now >= subs["sql"].next_fire_time)
            => <>("sql" \in DOMAIN subs /\ InBatch("sql", m)))


\* ---- claims on SpecRecorder

\* the sum, over the messages of the batch, of the values of one key
RECURSIVE SumOfKey(_, _)
SumOfKey(messages, metric) ==
    IF messages = <<>> THEN 0
    ELSE (IF metric \in DOMAIN Head(messages) THEN Head(messages)[metric] ELSE 0)
         + SumOfKey(Tail(messages), metric)

\* C16: handle() inserts one record per (source, destination, port,
\* protocol, connected) tuple that occurs in the batch, and the record's
\* success_count and failure_count are the sums of the values that the
\* messages of the batch carry for the tuple's success and failure key.
C16_RecordCountsAreSums ==
    rows # NotRun =>
        /\ DOMAIN rows =
            {RecordStr(k) : k \in UNION {DOMAIN batch[i] : i \in DOMAIN batch}}
        /\ \A r \in DOMAIN rows :
            /\ rows[r].success_count = SumOfKey(batch, <<r[1], r[2], "success">>)
            /\ rows[r].failure_count = SumOfKey(batch, <<r[1], r[2], "failure">>)


\* ---- claims on SpecEquality

\* the identity tuple of a rule object
IdentityTuple(self) ==
    IF self.class = "TrafficServer"
      THEN <<self.endpoint, self.port, self.protocol>>
      ELSE <<self.source, self.destination, self.port, self.protocol, self.allowed>>

\* C17: two rule objects of one class are equal exactly when their identity
\* tuples are equal, and equal objects have equal hashes, whatever their id
\* and enabled fields are.
C17_EqualityAndHashOnIdentity ==
    cmp.done =>
        /\ cmp.eq <=> (IdentityTuple(pair[1]) = IdentityTuple(pair[2]))
        /\ cmp.eq => (cmp.hashes[1] = cmp.hashes[2])


\* ---- claims on SpecConvert

\* the same Python value: the same type and the same value
SameValue(a, b) == a.type = b.type /\ a.val = b.val

\* C18: from_metric(to_metric(source, destination, port, protocol,
\* connected, success)) returns a record whose source, destination, port,
\* protocol and connected are the arguments, with their values and types,
\* and is_success of the key is the success argument.
C18_MetricRoundTrip ==
    conv_ret.done =>
        /\ conv_ret.exc = "none"
        /\ SameValue(conv_ret.made.source, conv_args.source)
        /\ SameValue(conv_ret.made.destination, conv_args.destination)
        /\ SameValue(conv_ret.made.port, conv_args.port)
        /\ SameValue(conv_ret.made.protocol, conv_args.protocol)
        /\ SameValue(conv_ret.made.connected, conv_args.connected)
        /\ conv_ret.is_success = conv_args.success


\* ---- claims on SpecStore

\* no two rows of a table have the same identity tuple
DistinctIdentities(table) ==
    \A i, j \in DOMAIN table :
        IdentityTuple(table[i]) = IdentityTuple(table[j]) => i = j

\* C19: a call of register_traffic that follows a call with the same
\* declaration inserts no server row and no client row, whatever rows were
\* enabled or disabled between the two, and no table ever holds two rows with
\* the same identity tuple.
C19_RegisterTrafficIdempotent ==
    /\ reg_log.calls >= 2 => (reg_log.servers = 0 /\ reg_log.clients = 0)
    /\ DistinctIdentities(servers_rows)
    /\ DistinctIdentities(clients_rows)

\* register_traffic is idempotent on the clients table (holds)
ClientRowsIdempotent ==
    /\ reg_log.calls >= 2 => reg_log.clients = 0
    /\ DistinctIdentities(clients_rows)


\* ---- claims on SpecHost

\* servers[i] of the last add_servers call equals a server hosted before it
HostedBefore(i) ==
    \E h \in DOMAIN add_log.before : Eq(add_log.before[h], add_log.servers[i])

\* C20: add_servers creates no listener for a server that equals, by
\* (endpoint, port, protocol), one the worker hosts already; a call with
\* such servers only leaves get_server_count() and the running listeners
\* as they were.
C20_AddServersIdempotent ==
    add_log.done =>
        /\ \A i \in DOMAIN add_log.servers :
                HostedBefore(i) => ~add_log.created[i]
        /\ (\A i \in DOMAIN add_log.servers : HostedBefore(i)) =>
                /\ get_server_count(hosted_servers) = get_server_count(add_log.before)
                /\ running_servers = add_log.running_before

\* an equal server with another id and another enabled flag was added again
C20_EqualServerAddedAgain ==
    /\ add_log.done
    /\ \E i \in DOMAIN add_log.servers, h \in DOMAIN add_log.before :
        /\ Eq(add_log.before[h], add_log.servers[i])
        /\ add_log.before[h].id # add_log.servers[i].id
        /\ add_log.before[h].enabled # add_log.servers[i].enabled
    /\ running_servers # <<>>


\* ---- further claims on SpecApp

\* C21: when shutdown() has completed, no worker holds a client rule and no
\* worker hosts a server listener.
C21_ShutdownStopsClientsAndServers ==
    (last_call.op = "shutdown" /\ last_call.exc = "none") =>
        /\ \A u \in LiveWorkers("client") : workers[u].held = <<>>
        /\ \A u \in LiveWorkers("server") : workers[u].listeners = <<>>


\* C23: when stop_all_clients() (stop_all_servers()) has returned, every
\* worker of the type in workers_registry has been sent the delete-all RPC
\* and stopped, and rules_registry has no key of the type.
C23_StopAllStopsEveryWorker ==
    (last_call.op \in {"stop_all_clients", "stop_all_servers"}
        /\ last_call.exc = "none") =>
        /\ LiveWorkers(last_call.type) = {}
        /\ GetAllKeys(rules_registry, last_call.type) = <<>>

\* stop_all_clients() returned after stopping workers that held rules
C23_RunningWorkersStopped ==
    /\ last_call.op = "stop_all_clients"
    /\ last_call.exc = "none"
    /\ last_call.workers_before >= 1
    /\ \E u \in DOMAIN workers : workers[u].type = "client" /\ ~workers[u].alive

\* C30: a start_clients (start_servers) call whose rules are all in
\* rules_registry already completes without raising and leaves
\* rules_registry, workers_registry and every worker as they were.
C30_StartIsIdempotent ==
    [][(/\ last_call' # last_call
        /\ last_call'.op \in {"start_clients", "start_servers"}
        /\ last_call'.rules # <<>>
        /\ \A i \in DOMAIN last_call'.rules :
              CacheHas(rules_registry,
                       Key(last_call'.type, last_call'.rules[i].id)))
       => (/\ last_call'.exc = "none"
           /\ rules_registry' = rules_registry
           /\ workers_registry' = workers_registry
           /\ workers' = workers)]_vars


\* ---- further claims on SpecWorker

\* C25: once an add_clients call and the dispatch task's exit have both
\* finished, the collection is not left with rules while no dispatch task
\* is running.
C25_AddedRulesNeverStranded ==
    (rpc.call = "idle" /\ gen.pc \in {"none", "crashed"}) =>
        DOMAIN rules_map = {}


\* ---- claims on SpecHeartbeat

AnsweredAsServed(i) ==
    /\ rpc_calls[i].stage = "raised" => rpc_calls[i].result = "raise"
    /\ rpc_calls[i].stage = "returned" => rpc_calls[i].result = "return"

C22_ServerSurvivesHandlerException ==
    /\ [](rpc_server.pc # "dead" /\ \A i \in DOMAIN rpc_calls : AnsweredAsServed(i))
    /\ \A i \in 1..MaxCalls :
         (i \in DOMAIN rpc_calls) ~> (i \in DOMAIN rpc_calls /\ rpc_calls[i].stage \in {"raised", "returned"})

\* a call raised in its caller, and later calls were answered normally, one
\* on the same connection and one on a new connection
C22_CallsAnsweredAfterException ==
    \E i, j, k \in DOMAIN rpc_calls :
        /\ i < j /\ i < k
        /\ rpc_calls[i].stage = "raised"
        /\ rpc_calls[j].stage = "returned" /\ rpc_calls[j].conn = rpc_calls[i].conn
        /\ rpc_calls[k].stage = "returned" /\ rpc_calls[k].conn # rpc_calls[i].conn

\* ----------------------------------------------------------------------
\* C26: with max_workers = k, the tasks submitted and not yet completed
\* never exceed k; while k are in flight the semaphore is zero, so submit
\* blocks; and when no thread is inside submit, fewer than k in flight means
\* a free permit, so a blocked submit goes on once any task in flight has
\* completed, whether it returned or raised.
C26_InFlightBounded ==
    /\ Cardinality(TasksInFlight) <= ExecutorWorkers
    /\ Cardinality(TasksInFlight) = ExecutorWorkers => semaphore = 0
    /\ (\A t \in SubmitThreads : submitters[t].pc = "idle")
          => semaphore = ExecutorWorkers - Cardinality(TasksInFlight)

\* k tasks are in flight with submit blocked, after a task raised and
\* another returned
C26_FullAfterCompletions ==
    /\ Cardinality(TasksInFlight) = ExecutorWorkers
    /\ semaphore = 0
    /\ \A t \in SubmitThreads : submitters[t].pc = "idle"
    /\ \E f, g \in DOMAIN futures : futures[f].state = "raised" /\ futures[g].state = "returned"

\* ----------------------------------------------------------------------
\* C27: a ping that has ended, by returning or by raising, has recorded
\* exactly request_count outcomes, whatever its attempts met.
C27_PingRecordsEveryRequest ==
    pinger.pc \in {"done", "raised"} => Len(requests_log) = pinger.request_count

\* ----------------------------------------------------------------------
\* C28: for each protocol, a request whose first attempt raised a transport
\* error was attempted exactly twice, and it is recorded as a success when
\* the second attempt completed successfully.
SecondAttemptSucceeded(protocol, second) ==
    second = (IF protocol = "HTTP" THEN "200" ELSE "ok")

C28_TransportErrorRetriedOnce ==
    \A k \in DOMAIN requests_log :
        requests_log[k].first = "error" =>
            /\ requests_log[k].attempts = 2
            /\ requests_log[k].success = SecondAttemptSucceeded(pinger.protocol, requests_log[k].second)

\* ----------------------------------------------------------------------
\* C29: an HTTP request whose first attempt was answered with a status
\* other than 200 was attempted exactly twice, and it is recorded as a
\* failure only if the second attempt was not answered with 200 either.
C29_Non200RetriedOnce ==
    \A k \in DOMAIN requests_log :
        (pinger.protocol = "HTTP" /\ requests_log[k].first \in {"204", "500"}) =>
            /\ requests_log[k].attempts = 2
            /\ (~requests_log[k].success => requests_log[k].second # "200")

\* ---- claims on SpecServe

\* C31: when delete_all_servers() has returned on a worker hosting any
\* number of servers, get_server_count() is 0, has_server is false for
\* every server, and no listener is left running.
C31_DeleteAllLeavesNothing ==
    (add_log.op = "delete_all_servers" /\ add_log.exc = "none") =>
        /\ get_server_count(hosted_servers) = 0
        /\ \A server \in ServeServers : ~has_server(hosted_servers, server)
        /\ running_servers = <<>>

\* C39: after every add_servers, delete_servers or delete_all_servers call,
\* returned or raised, the servers has_server reports are the servers that
\* have a running listener.
C39_HostedIsRunning ==
    \A server \in ServeServers :
        has_server(hosted_servers, server) <=>
            \E i \in DOMAIN running_servers : Eq(running_servers[i].key, server)

\* ----------------------------------------------------------------------
\* C32: when no thread is inside record(), the Counter the cache holds for
\* a key carries every increment made for that key: the next drain reads,
\* for each key, the number of records made on it (2 when two threads
\* recorded the same new key once each).
RecordsMadeOn(key) ==
    IF cache_map[key] = 0 THEN 0 ELSE counter_objs[cache_map[key]]

SumCounts(objs) ==
    LET RECURSIVE SumFrom(_)
        SumFrom(i) == IF i > Len(objs) THEN 0 ELSE objs[i] + SumFrom(i + 1)
    IN  SumFrom(1)

C32_NoIncrementOnDiscardedCounter ==
    (\A t \in ProbeThreads : probe_threads[t].pc = "idle") =>
        RecordsMadeOn(to_metric("src:dst:port:TCP", TRUE, TRUE))
          + RecordsMadeOn(to_metric("src:dst:port:TCP", TRUE, FALSE))
            = SumCounts(counter_objs)

\* ----------------------------------------------------------------------
\* C33: for each subscriber, the batches given to its handle, put end to
\* end in the order given, list messages in the order the exchange received
\* them, each at most once, and only messages received while the
\* subscriber was attached.
RECURSIVE Concat(_)
Concat(batches) ==
    IF batches = <<>> THEN <<>> ELSE Head(batches) \o Concat(Tail(batches))

InReceiveOrder(messages) ==
    \A i, j \in DOMAIN messages : i < j => messages[i] < messages[j]

C33_BatchesPreserveOrder ==
    \A sub \in DOMAIN delivered :
        LET messages == Concat(delivered[sub])
        IN  /\ InReceiveOrder(messages)
            /\ \A i \in DOMAIN messages :
                  \E k \in DOMAIN received_attached[sub] : received_attached[sub][k] = messages[i]

\* a subscriber was given two batches, and a subscriber attached later
\* a batch with the second message only
C33_SeveralBatchesDelivered ==
    \E sub, other \in DOMAIN delivered :
        /\ Len(delivered[sub]) >= 2
        /\ delivered[other] = <<(<<2>>)>>

\* ----------------------------------------------------------------------
\* C40: the dispatch thread never leaves its loop: neither attach or detach
\* called while it delivers nor an exception raised while one message is
\* received and dispatched ends run().
C40_DispatchLoopNeverEnds ==
    manager.pc # "dead"

\* ---- claims on SpecWorkerFair

\* C34: once the stop flag is set, the dispatch task submits at most one
\* further probe and then ends; the running flag is cleared only by the
\* task's cleanup, after the shutdown of the pool has waited, when no probe
\* is in flight.
C34_CooperativeShutdown ==
    /\ [](hist.after_stop <= 1)
    /\ [][(run_event /\ ~run_event') => (gen.pc = "cleanup" /\ pool = 0)]_vars
    /\ [](stop_event => <>(gen.pc \in {"none", "crashed"}))

\* C34 witness: a dispatch task has ended and cleared the running flag
\* after the one probe it submitted with the stop flag set
C34_StoppedAfterOneMoreProbe ==
    /\ hist.task_started /\ hist.after_stop = 1
    /\ gen.pc = "none" /\ ~run_event /\ stop_event

\* ---- further claims on SpecWorker

\* C35: the dispatch task, done with a yielded rule it did not break on,
\* has submitted a probe for it to the pool, whether the rule's protocol is
\* TCP, UDP, HTTP or HTTPS, unless building or submitting the probe raised.
C35_EveryYieldedRuleProbed ==
    [][(/\ gen.pc = "submit" /\ gen'.pc # "submit"
        /\ gen.item.protocol \in {"TCP", "UDP", "HTTP", "HTTPS"}
        /\ ~GenSubmitRaised) => pool' = pool + 1]_vars

\* ---- further claims on SpecWorkerFair

\* C36: an exception raised while the probe of a rule is built or
\* submitted leaves the dispatch task in its loop with the running flag
\* set, and the task gets the next rule of the round robin unless it ends
\* through its cleanup; a probe that ends, by raising or returning, changes
\* neither the dispatch task nor the running flag.
C36_ExceptionsDoNotEndDispatch ==
    /\ [][GenSubmitRaised => (gen'.pc = "resume" /\ run_event /\ run_event')]_vars
    /\ [][ProbeDone => (gen' = gen /\ run_event' = run_event)]_vars
    /\ [](hist.raised # "no" => gen.pc # "crashed")
    /\ [](hist.raised = "raised" => <>(hist.raised = "went_on" \/ gen.pc = "none"))

\* C36 witness: after an exception caught in its loop the dispatch task is
\* about to submit the probe of a further rule, the running flag set, while
\* a probe is in flight
C36_NextRuleAfterException ==
    /\ hist.raised = "went_on"
    /\ gen.pc = "submit" /\ run_event
    /\ pool > 0

\* ---- claims on SpecScope

\* the entries of a registry whose keys are of the given type
EntriesOf(cache, type) == SelectSeq(cache, LAMBDA e : e.key.prefix = type)

\* the worker processes of a type, by uid, as they are
ProcsOf(procs, type) ==
    {<<uid, procs[uid]>> : uid \in {u \in DOMAIN procs : procs[u].type = type}}

\* a stop_all of one type left the other type's rules, workers and
\* listeners as they were
OtherTypeUntouched(other) ==
    /\ EntriesOf(rules_registry', other) = EntriesOf(rules_registry, other)
    /\ EntriesOf(workers_registry', other) = EntriesOf(workers_registry, other)
    /\ ProcsOf(workers', other) = ProcsOf(workers, other)

\* a stop of the listed rules left the registry entries of every other
\* rule as they were
OtherRulesUntouched(type) ==
    LET named == {Key(type, last_call'.rules[i].id) : i \in DOMAIN last_call'.rules}
    IN  SelectSeq(rules_registry', LAMBDA e : e.key \notin named)
            = SelectSeq(rules_registry, LAMBDA e : e.key \notin named)

\* C37: stop_all_clients leaves the server_* entries of the rules
\* registry, the server workers' entries of the workers registry and the
\* server workers with their listeners unchanged, stop_all_servers likewise
\* the clients' side, and stop_clients(rules) / stop_servers(rules) leave the
\* registry entries of the rules they were not given unchanged.
C37_StopsKeepToTheirScope ==
    /\ [][StopAllClients => OtherTypeUntouched("server")]_vars
    /\ [][StopAllServers => OtherTypeUntouched("client")]_vars
    /\ [][StopClients => OtherRulesUntouched("client")]_vars
    /\ [][StopServers => OtherRulesUntouched("server")]_vars

\* C37 witness: stop_all_clients has returned after stopping a client
\* worker, while a server rule is registered on a live server worker that
\* has its listener
C37_ClientsStoppedServersRunning ==
    /\ last_call.op = "stop_all_clients" /\ last_call.exc = "none"
    /\ last_call.workers_before > 0
    /\ EntriesOf(rules_registry, "client") = <<>>
    /\ \E i \in DOMAIN rules_registry :
         /\ rules_registry[i].key.prefix = "server"
         /\ workers[rules_registry[i].value].alive
         /\ workers[rules_registry[i].value].listeners # <<>>

\* ---- further claims on SpecApp

\* C38: every worker the workers registry lists is a live process.
C38_RegisteredWorkersAlive ==
    \A i \in DOMAIN workers_registry : workers[workers_registry[i].value].alive

====
